---- MODULE Spec2Model ----
(***************************************************************************)
(* Meeting scheduler (njacobson88/meetingscheduler), latest server         *)
(* revision src/unnamed/part_003.                                          *)
(*                                                                         *)
(* Instants are whole seconds since 1970-01-01T00:00:00Z (a JS Date at     *)
(* one-second resolution).  Calendar days are day numbers since the epoch. *)
(* A "YYYY-MM-DD" string is the record [y, m, d]; an ISO-8601 instant      *)
(* string is the record [date, sec] (date part, seconds into that UTC      *)
(* day), so that formatting and parsing are real conversions.              *)
(*                                                                         *)
(* The server process runs with local time = UTC (the deployment target),  *)
(* so getMinutes/getHours/getDay/getDate read the UTC fields.              *)
(***************************************************************************)
EXTENDS Integers, Sequences, FiniteSets, TLC

VARIABLES
    eRaw,        \* engine harness: the raw calendar items of one day
    eWin,        \* engine harness: [start, end] of the slot window (instants)
    eProcessed,  \* engine harness: the processedEvents list handed to the engine
    eAdj,        \* engine harness: result of calculateAdjacentSlots
    eAll,        \* engine harness: result of calculateAllSlots
    ePhase,      \* engine harness: [stage, adj, all]
    adminTokens, \* server: the admin's OAuth tokens ("null", "valid", "expired")
    calendar,    \* the admin's calendar at the provider: a set of items
    resp,        \* the response of the request handled last, until it is received
    rangeReq,    \* the /api/date-range-availability request in flight
    fIn,         \* function harness: the argument drawn
    fOut,        \* function harness: the results computed from it
    client       \* the state of the App component and its requests in flight

engineVars == <<eRaw, eWin, eProcessed, eAdj, eAll, ePhase>>

serverVars == <<adminTokens, calendar, resp, rangeReq>>

funVars == <<fIn, fOut>>

vars == <<eRaw, eWin, eProcessed, eAdj, eAll, ePhase,
          adminTokens, calendar, resp, rangeReq, fIn, fOut, client>>

-----------------------------------------------------------------------------
(* Bounds of the model *)

\* longest raw event list drawn for the engine harness
MaxEvents == 2

\* most items the calendar holds at a time
MaxCalendar == 2

-----------------------------------------------------------------------------
(* Date arithmetic of the JS runtime (Date.UTC, getUTCDay, toISOString) *)

HourSec == 60 * 60
DaySec == 24 * HourSec

IsLeap(y) == (y % 4 = 0 /\ y % 100 # 0) \/ y % 400 = 0

\* days from 1970-01-01 to 1 January of year y
DaysBeforeYear(y) ==
    365 * (y - 1970) + ((y - 1) \div 4) - ((y - 1) \div 100) + ((y - 1) \div 400) - 477

\* days from 1 January to the first of month m0 (0-indexed, as in JS)
DaysBeforeMonth(y, m0) ==
    LET cum == <<0, 31, 59, 90, 120, 151, 181, 212, 243, 273, 304, 334>>
    IN  cum[m0 + 1] + (IF m0 >= 2 /\ IsLeap(y) THEN 1 ELSE 0)

\* Date.UTC(year, monthIndex, day) as a day number; month and day overflow
\* are carried as JS does
DateUTC(y, m0, d) ==
    LET yy == y + (m0 \div 12)
        mm == m0 % 12
    IN  DaysBeforeYear(yy) + DaysBeforeMonth(yy, mm) + (d - 1)

\* Date.UTC(year, monthIndex, day, hours, 0, 0) as an instant
DateUTCAt(y, m0, d, h) == DateUTC(y, m0, d) * DaySec + h * HourSec

\* the [y, m, d] of a day number (the date part of toISOString), by the
\* usual era / day-of-era / day-of-year decomposition of the civil calendar
CivilOfMp(y0, mp, doy) ==
    [y |-> y0 + (IF mp >= 10 THEN 1 ELSE 0),
     m |-> IF mp < 10 THEN mp + 3 ELSE mp - 9,
     d |-> doy - ((153 * mp + 2) \div 5) + 1]

CivilOfDoy(y0, doy) == CivilOfMp(y0, (5 * doy + 2) \div 153, doy)

CivilOfYoe(era, doe, yoe) ==
    CivilOfDoy(yoe + era * 400, doe - (365 * yoe + (yoe \div 4) - (yoe \div 100)))

CivilOfDoe(era, doe) ==
    CivilOfYoe(era, doe,
               (doe - (doe \div 1460) + (doe \div 36524) - (doe \div 146096)) \div 365)

CivilOfEra(z, era) == CivilOfDoe(era, z - era * 146097)

CivilFromDays(n) == CivilOfEra(n + 719468, (n + 719468) \div 146097)

\* Date.prototype.getUTCDay of a day number: 0 = Sunday ... 6 = Saturday
getUTCDay(n) == (n + 4) % 7

\* day number of a valid "YYYY-MM-DD"
DayOf(date) == DateUTC(date.y, date.m - 1, date.d)

\* Date.prototype.toISOString
toISOString(t) == [date |-> CivilFromDays(t \div DaySec), sec |-> t % DaySec]

\* new Date(isoString) for a string produced by toISOString or sent by the
\* calendar provider
ParseISO(s) == DayOf(s.date) * DaySec + s.sec

\* date.toISOString().split('T')[0]
DateStr(t) == toISOString(t).date

-----------------------------------------------------------------------------
(* Calendar items as the provider returns them *)

NoDate == [y |-> 0, m |-> 0, d |-> 0]
NoTime == [date |-> NoDate, sec |-> 0]

\* a timed item: start.dateTime / end.dateTime are set
TimedEvent(id, s, e, status, transparency) ==
    [id |-> id, kind |-> "timed", summary |-> "busy",
     startDateTime |-> toISOString(s), endDateTime |-> toISOString(e),
     startDate |-> NoDate, endDate |-> NoDate,
     status |-> status, transparency |-> transparency,
     isSyntheticAllDay |-> FALSE]

\* an all-day item: start.date / end.date are set, the end date exclusive
AllDayEvent(id, sd, ed, status, transparency) ==
    [id |-> id, kind |-> "allDay", summary |-> "busy",
     startDateTime |-> NoTime, endDateTime |-> NoTime,
     startDate |-> sd, endDate |-> ed,
     status |-> status, transparency |-> transparency,
     isSyntheticAllDay |-> FALSE]

-----------------------------------------------------------------------------
(* Rounding helpers *)

\* minutes field of an instant (getMinutes)
getMinutes(t) == (t \div 60) % 60

\* mutant: the minutes are always set to 0
roundDown30ToHour(t) ==
    LET rounded == t - (t % 60)
    IN  rounded - getMinutes(rounded) * 60

roundDown30(t) ==
    LET rounded == t - (t % 60)                       \* setSeconds(0, 0)
        minutes == getMinutes(rounded)
    IN  IF minutes >= 30
          THEN rounded - minutes * 60 + 30 * 60       \* setMinutes(30)
          ELSE rounded - minutes * 60                 \* setMinutes(0)

\* mutant: minutes past 30 are set to 30 instead of rolling to the next hour
roundUp30NoRoll(t) ==
    LET rounded == t - (t % 60)
        minutes == getMinutes(rounded)
    IN  IF minutes > 0
          THEN rounded - minutes * 60 + 30 * 60
          ELSE rounded

roundUp30(t) ==
    LET rounded == t - (t % 60)                       \* setSeconds(0, 0)
        minutes == getMinutes(rounded)
    IN  IF minutes > 30
          THEN rounded - minutes * 60 + HourSec       \* setMinutes(0); setHours(+1)
          ELSE IF minutes > 0 /\ minutes <= 30
                 THEN rounded - minutes * 60 + 30 * 60
                 ELSE rounded

-----------------------------------------------------------------------------
(* Slot engine *)

\* the length of one slot, in minutes
SlotMinutes == 30

SlotSec == SlotMinutes * 60

\* the tiling loop: while (current < endOfBusinessDay) { ... }
RECURSIVE BuildSlots(_, _)
\* mutant: a trailing partial slot is cut at the window end and kept
BuildSlotsTruncating(current, endOfBusinessDay) ==
    IF current < endOfBusinessDay
      THEN LET slotStart == current
               slotEnd == IF current + SlotSec <= endOfBusinessDay
                            THEN current + SlotSec ELSE endOfBusinessDay
           IN  << [start |-> slotStart, end |-> slotEnd,
                   isOverlapping |-> FALSE, isAdjacent |-> FALSE] >>
               \o BuildSlots(current + SlotSec, endOfBusinessDay)
      ELSE << >>

BuildSlots(current, endOfBusinessDay) ==
    IF current < endOfBusinessDay
      THEN LET slotStart == current
               slotEnd == current + SlotSec
               here == IF slotEnd <= endOfBusinessDay
                         THEN << [start |-> slotStart, end |-> slotEnd,
                                  isOverlapping |-> FALSE,
                                  isAdjacent |-> FALSE] >>
                         ELSE << >>
           IN  here \o BuildSlots(current + SlotSec, endOfBusinessDay)
      ELSE << >>

\* event.start.dateTime && event.end.dateTime
HasDateTime(event) == event.kind = "timed"

\* mutant: the overlap test with closed interval ends
SlotOverlapsClosed(slot, eventStart, eventEnd) ==
    slot.start <= eventEnd /\ slot.end >= eventStart

\* mutant: an event that coincides with the slot does not overlap it
SlotOverlapsPartly(slot, eventStart, eventEnd) ==
    /\ slot.start < eventEnd /\ slot.end > eventStart
    /\ ~(slot.start = eventStart /\ slot.end = eventEnd)

\* slot.start < eventEnd && slot.end > eventStart
SlotOverlaps(slot, eventStart, eventEnd) ==
    slot.start < eventEnd /\ slot.end > eventStart

\* one pass of the inner loop body of calculateAdjacentSlots for one slot
\* mutant: a slot already marked adjacent is not examined again
MarkAdjacentSlotOnce(slot, event) ==
    LET eventStart == ParseISO(event.startDateTime)
        eventEnd == ParseISO(event.endDateTime)
    IN  IF slot.isOverlapping \/ slot.isAdjacent THEN slot
        ELSE IF SlotOverlaps(slot, eventStart, eventEnd)
          THEN [slot EXCEPT !.isOverlapping = TRUE]
        ELSE IF /\ ~event.isSyntheticAllDay
                /\ (slot.end = roundDown30(eventStart) \/ slot.start = roundUp30(eventEnd))
          THEN [slot EXCEPT !.isAdjacent = TRUE]
        ELSE slot

MarkAdjacentSlot(slot, event) ==
    LET eventStart == ParseISO(event.startDateTime)
        eventEnd == ParseISO(event.endDateTime)
        isAllDayBlock == event.isSyntheticAllDay
        effectiveStartRoundedDown == roundDown30(eventStart)
        effectiveEndRoundedUp == roundUp30(eventEnd)
        endsBeforeEventStarts == slot.end = effectiveStartRoundedDown
        startsAfterEventEnds == slot.start = effectiveEndRoundedUp
    IN  IF slot.isOverlapping THEN slot
        ELSE IF SlotOverlaps(slot, eventStart, eventEnd)
          THEN [slot EXCEPT !.isOverlapping = TRUE]
        ELSE IF /\ ~isAllDayBlock
                /\ (endsBeforeEventStarts \/ startsAfterEventEnds)
                /\ ~SlotOverlaps(slot, eventStart, eventEnd)
          THEN [slot EXCEPT !.isAdjacent = TRUE]
        ELSE slot

\* the outer loop: for (const event of processedEvents), from event k on
RECURSIVE MarkAdjacent(_, _, _)
MarkAdjacent(slots, processedEvents, k) ==
    IF k > Len(processedEvents) THEN slots
    ELSE LET event == processedEvents[k]
             next == IF ~HasDateTime(event) THEN slots
                     ELSE [i \in DOMAIN slots |-> MarkAdjacentSlot(slots[i], event)]
         IN  MarkAdjacent(next, processedEvents, k + 1)

\* mutant: the result is returned last slot first
MapToISOReversed(slots) ==
    [i \in DOMAIN slots |-> [start |-> toISOString(slots[Len(slots) + 1 - i].start),
                             end |-> toISOString(slots[Len(slots) + 1 - i].end)]]

\* .map(slot => ({start: slot.start.toISOString(), end: slot.end.toISOString()}))
MapToISO(slots) ==
    [i \in DOMAIN slots |-> [start |-> toISOString(slots[i].start),
                             end |-> toISOString(slots[i].end)]]

\* mutant: the result filter without the overlap flag
IsAdjacentOnly(slot) == slot.isAdjacent

\* slot => !slot.isOverlapping && slot.isAdjacent
IsAvailableAdjacent(slot) == ~slot.isOverlapping /\ slot.isAdjacent

\* slot => !slot.isOverlapping
\* mutant: the final filter of calculateAllSlots keeps every slot
IsNotOverlappingAny(slot) == TRUE

IsNotOverlapping(slot) == ~slot.isOverlapping

calculateAdjacentSlots(processedEvents, startOfBusinessDay, endOfBusinessDay) ==
    LET slots == BuildSlots(startOfBusinessDay, endOfBusinessDay)
    IN  IF Len(processedEvents) = 0 THEN << >>
        ELSE MapToISO(SelectSeq(MarkAdjacent(slots, processedEvents, 1), IsAvailableAdjacent))

\* the overlap test of the earlier calculateAllSlots: three cases
SlotOverlapsEarlier(slot, eventStart, eventEnd) ==
    \/ (slot.start >= eventStart /\ slot.start < eventEnd)
    \/ (slot.end > eventStart /\ slot.end <= eventEnd)
    \/ (slot.start <= eventStart /\ slot.end >= eventEnd)

\* mutant: calculateAllSlots also drops the slots that touch an event
MarkOverlapSlotClosed(slot, event) ==
    LET eventStart == ParseISO(event.startDateTime)
        eventEnd == ParseISO(event.endDateTime)
    IN  IF slot.isOverlapping THEN slot
        ELSE IF slot.start <= eventEnd /\ slot.end >= eventStart
          THEN [slot EXCEPT !.isOverlapping = TRUE]
        ELSE slot

\* one pass of the inner loop body of calculateAllSlots for one slot
MarkOverlapSlot(slot, event) ==
    LET eventStart == ParseISO(event.startDateTime)
        eventEnd == ParseISO(event.endDateTime)
    IN  IF slot.isOverlapping THEN slot
        ELSE IF SlotOverlaps(slot, eventStart, eventEnd)
          THEN [slot EXCEPT !.isOverlapping = TRUE]
        ELSE slot

RECURSIVE MarkOverlap(_, _, _)
MarkOverlap(slots, processedEvents, k) ==
    IF k > Len(processedEvents) THEN slots
    ELSE LET event == processedEvents[k]
             next == IF ~HasDateTime(event) THEN slots
                     ELSE [i \in DOMAIN slots |-> MarkOverlapSlot(slots[i], event)]
         IN  MarkOverlap(next, processedEvents, k + 1)

\* mutant: an empty event list gives [], as in calculateAdjacentSlots
calculateAllSlotsNeedsEvents(processedEvents, startOfBusinessDay, endOfBusinessDay) ==
    LET slots == BuildSlots(startOfBusinessDay, endOfBusinessDay)
    IN  IF Len(processedEvents) = 0 THEN << >>
        ELSE MapToISO(SelectSeq(MarkOverlap(slots, processedEvents, 1), IsNotOverlapping))

calculateAllSlots(processedEvents, startOfBusinessDay, endOfBusinessDay) ==
    LET slots == BuildSlots(startOfBusinessDay, endOfBusinessDay)
    IN  MapToISO(SelectSeq(MarkOverlap(slots, processedEvents, 1), IsNotOverlapping))

-----------------------------------------------------------------------------
(* Event filter and normalizer of the handlers *)

\* event.status !== 'cancelled' &&
\* (!event.transparency || event.transparency !== 'transparent')
IsActive(event) ==
    /\ event.status # "cancelled"
    /\ (event.transparency = "" \/ event.transparency # "transparent")

\* response.data.items.filter(...)
FilterActive(items) == SelectSeq(items, IsActive)

\* the synthetic full-window block pushed for a covering all-day event
SyntheticBlock(event, slotsStart, slotsEnd) ==
    [id |-> event.id, kind |-> "timed", summary |-> "busy (All-Day Block)",
     startDateTime |-> toISOString(slotsStart), endDateTime |-> toISOString(slotsEnd),
     startDate |-> NoDate, endDate |-> NoDate,
     status |-> "confirmed", transparency |-> "",
     isSyntheticAllDay |-> TRUE]

\* selectedDateUTC >= eventStartDate && selectedDateUTC < eventEndDateExclusive
\* mutant: the end date of an all-day event is covered too
AllDayCoversInclusiveEnd(event, selectedDateUTC) ==
    /\ selectedDateUTC >= DayOf(event.startDate) * DaySec
    /\ selectedDateUTC <= DayOf(event.endDate) * DaySec

\* mutant: the first day of an all-day event is not covered
AllDayCoversAfterStart(event, selectedDateUTC) ==
    /\ selectedDateUTC > DayOf(event.startDate) * DaySec
    /\ selectedDateUTC < DayOf(event.endDate) * DaySec

AllDayCovers(event, selectedDateUTC) ==
    /\ selectedDateUTC >= DayOf(event.startDate) * DaySec
    /\ selectedDateUTC < DayOf(event.endDate) * DaySec

\* mutant: the window test keeps items that only touch an edge
TouchesWindowClosed(event, slotsStart, slotsEnd) ==
    /\ ParseISO(event.startDateTime) <= slotsEnd
    /\ ParseISO(event.endDateTime) >= slotsStart

\* eventStart < slotsEnd && eventEnd > slotsStart
TouchesWindow(event, slotsStart, slotsEnd) ==
    /\ ParseISO(event.startDateTime) < slotsEnd
    /\ ParseISO(event.endDateTime) > slotsStart

\* rawEvents.forEach(...) of /api/available-slots, from item i on
RECURSIVE ProcessEvents(_, _, _, _, _)
\* mutant: a kept timed event is cut to the window
ProcessEventsClipped(rawEvents, selectedDateUTC, slotsStart, slotsEnd, i) ==
    IF i > Len(rawEvents) THEN << >>
    ELSE LET event == rawEvents[i]
             eventStart == ParseISO(event.startDateTime)
             eventEnd == ParseISO(event.endDateTime)
             pushed ==
                 IF event.kind = "allDay"
                   THEN IF AllDayCovers(event, selectedDateUTC)
                          THEN << SyntheticBlock(event, slotsStart, slotsEnd) >>
                          ELSE << >>
                 ELSE IF TouchesWindow(event, slotsStart, slotsEnd)
                   THEN << [event EXCEPT
                              !.startDateTime = toISOString(IF eventStart < slotsStart
                                                              THEN slotsStart ELSE eventStart),
                              !.endDateTime = toISOString(IF eventEnd > slotsEnd
                                                            THEN slotsEnd ELSE eventEnd)] >>
                 ELSE << >>
         IN  pushed \o ProcessEvents(rawEvents, selectedDateUTC, slotsStart, slotsEnd, i + 1)

ProcessEvents(rawEvents, selectedDateUTC, slotsStart, slotsEnd, i) ==
    IF i > Len(rawEvents) THEN << >>
    ELSE LET event == rawEvents[i]
             pushed ==
                 IF event.kind = "allDay"
                   THEN IF AllDayCovers(event, selectedDateUTC)
                          THEN << SyntheticBlock(event, slotsStart, slotsEnd) >>
                          ELSE << >>
                 ELSE IF event.kind = "timed"
                   THEN IF TouchesWindow(event, slotsStart, slotsEnd)
                          THEN << event >>
                          ELSE << >>
                 ELSE << >>
         IN  pushed \o ProcessEvents(rawEvents, selectedDateUTC, slotsStart, slotsEnd, i + 1)

\* the per-day filter of /api/month-availability (8AM-5PM check)
InMonthDayRange(event, queryStart, queryEnd) ==
    /\ event.kind = "timed"
    /\ LET eventStart == ParseISO(event.startDateTime)
           eventEnd == ParseISO(event.endDateTime)
       IN  \/ (eventStart >= queryStart /\ eventStart < queryEnd)
           \/ (eventEnd > queryStart /\ eventEnd <= queryEnd)
           \/ (eventStart <= queryStart /\ eventEnd >= queryEnd)

\* events.filter(...) for one day of the month
MonthDayEvents(events, yearNum, monthNum, day) ==
    LET queryStart == DateUTCAt(yearNum, monthNum, day, 13)
        queryEnd == DateUTCAt(yearNum, monthNum, day, 22)
        InRange(event) == InMonthDayRange(event, queryStart, queryEnd)
    IN  SelectSeq(events, InRange)

\* slotsStart / slotsEnd of /api/month-availability
MonthSlotsStart(yearNum, monthNum, day) == DateUTCAt(yearNum, monthNum, day, 14)
MonthSlotsEnd(yearNum, monthNum, day) == DateUTCAt(yearNum, monthNum, day, 22)

-----------------------------------------------------------------------------
(* Eastern time as the calendar provider keeps it (US rule: daylight saving *)
(* from 02:00 on the second Sunday of March to 02:00 on the first Sunday of  *)
(* November)                                                                 *)

SecondSundayOfMarch(y) ==
    LET m1 == DateUTC(y, 2, 1) IN m1 + ((7 - getUTCDay(m1)) % 7) + 7

FirstSundayOfNovember(y) ==
    LET n1 == DateUTC(y, 10, 1) IN n1 + ((7 - getUTCDay(n1)) % 7)

\* hours Eastern time is behind UTC at instant t
EasternOffsetAt(t) ==
    LET y == CivilFromDays(t \div DaySec).y
        dstStart == SecondSundayOfMarch(y) * DaySec + 7 * HourSec
        dstEnd == FirstSundayOfNovember(y) * DaySec + 6 * HourSec
    IN  IF t >= dstStart /\ t < dstEnd THEN 4 ELSE 5

\* the instant of 00:00 Eastern on day number n
EasternMidnight(n) ==
    LET asStandard == n * DaySec + 5 * HourSec
    IN  IF EasternOffsetAt(asStandard) = 5 THEN asStandard ELSE n * DaySec + 4 * HourSec

-----------------------------------------------------------------------------
(* The calendar provider: events.list *)

\* the span an item occupies: its instants, or Eastern midnights for all-day
ItemStart(item) ==
    IF item.kind = "timed" THEN ParseISO(item.startDateTime)
    ELSE EasternMidnight(DayOf(item.startDate))

ItemEnd(item) ==
    IF item.kind = "timed" THEN ParseISO(item.endDateTime)
    ELSE EasternMidnight(DayOf(item.endDate))

\* orderBy: 'startTime' (ties by id)
RECURSIVE OrderByStartTime(_)
OrderByStartTime(items) ==
    IF items = {} THEN << >>
    ELSE LET first == CHOOSE a \in items : \A b \in items :
                 \/ ItemStart(a) < ItemStart(b)
                 \/ (ItemStart(a) = ItemStart(b) /\ a.id <= b.id)
         IN  << first >> \o OrderByStartTime(items \ {first})

\* calendar.events.list({timeMin, timeMax, singleEvents, orderBy, maxResults}):
\* the items that end after timeMin and start before timeMax, first page only
EventsList(cal, timeMin, timeMax, maxResults) ==
    LET hits == { item \in cal : ItemEnd(item) > timeMin /\ ItemStart(item) < timeMax }
        ordered == OrderByStartTime(hits)
    IN  IF Len(ordered) <= maxResults THEN ordered ELSE SubSeq(ordered, 1, maxResults)

\* maxResults of the day and range queries
MaxResultsDay == 100

\* maxResults of the month query
MaxResultsMonth == 2500

-----------------------------------------------------------------------------
(* Tokens *)

\* ensureValidTokens(): throws when adminTokens is null; refreshes an expired
\* token, throwing when the refresh fails. `calls` lists the calendar API
\* calls made; the OAuth refresh is not one
\* mutant: missing tokens are not an error
ensureValidTokensUnchecked(tokens, refreshOk) ==
    IF tokens = "expired" /\ ~refreshOk
      THEN [ok |-> FALSE, tokens |-> tokens, calls |-> << >>,
            err |-> "Failed to refresh token. Re-authenticate via /auth/admin."]
    ELSE [ok |-> TRUE, tokens |-> IF tokens = "expired" THEN "valid" ELSE tokens,
          calls |-> << >>, err |-> ""]

ensureValidTokens(tokens, refreshOk) ==
    IF tokens = "null"
      THEN [ok |-> FALSE, tokens |-> tokens, calls |-> << >>,
            err |-> "Admin not authenticated. Visit /auth/admin first."]
    ELSE IF tokens = "expired"
      THEN IF refreshOk
             THEN [ok |-> TRUE, tokens |-> "valid", calls |-> << >>, err |-> ""]
             ELSE [ok |-> FALSE, tokens |-> tokens, calls |-> << >>,
                   err |-> "Failed to refresh token. Re-authenticate via /auth/admin."]
    ELSE [ok |-> TRUE, tokens |-> tokens, calls |-> << >>, err |-> ""]

\* findWorkCalendar(): ensureValidTokens, then calendarList.list; every error
\* is swallowed and 'primary' returned
findWorkCalendar(tokens, refreshOk) ==
    LET a == ensureValidTokens(tokens, refreshOk)
    IN  IF a.ok
          THEN [tokens |-> a.tokens, calls |-> a.calls \o << "calendarList.list" >>]
          ELSE [tokens |-> a.tokens, calls |-> a.calls]

-----------------------------------------------------------------------------
(* Responses *)

NoResp ==
    [op |-> "none", status |-> 0, date |-> NoDate, endDate |-> NoDate,
     slots |-> << >>, month |-> << >>, range |-> << >>,
     startTime |-> NoTime, endTime |-> NoTime,
     calls |-> << >>, authed |-> FALSE, fresh |-> 0, err |-> "",
     threw |-> ""]

\* error.message of a rejected calendar API call
UpstreamMessage == "events.list failed"

\* mutant: the catch block answers 200 with what the handler has so far
CatchErrorAsEmpty(base, thrower, message) ==
    [base EXCEPT !.status = 200, !.threw = thrower]

\* catch (error) { res.status(500).send(error.message || ...) }; `threw`
\* records the call whose rejection was caught
CatchError(base, thrower, message) ==
    [base EXCEPT !.status = 500, !.err = message, !.threw = thrower]

-----------------------------------------------------------------------------
(* GET /api/available-slots *)

\* mutant: daylight saving never in effect
isEasternTimeDSTNever(dateStr) == FALSE

\* mutant: the step from 1 March to the first Sunday lacks its % 7
isEasternTimeDSTFullWeek(dateStr) ==
    LET date == DayOf(dateStr) * DaySec + 12 * HourSec
        m1 == DateUTC(dateStr.y, 2, 1)
        n1 == DateUTC(dateStr.y, 10, 1)
    IN  /\ date >= (m1 + (7 - getUTCDay(m1)) + 7) * DaySec
        /\ date < (n1 + ((7 - getUTCDay(n1)) % 7)) * DaySec

isEasternTimeDST(dateStr) ==
    LET date == DayOf(dateStr) * DaySec + 12 * HourSec       \* noon UTC
        year == dateStr.y
        marchSecondSunday ==
            LET m1 == DateUTC(year, 2, 1)
            IN  (m1 + ((7 - getUTCDay(m1)) % 7) + 7) * DaySec
        novemberFirstSunday ==
            LET n1 == DateUTC(year, 10, 1)
            IN  (n1 + ((7 - getUTCDay(n1)) % 7)) * DaySec
    IN  date >= marchSecondSunday /\ date < novemberFirstSunday

\* mutant: no day is a weekend day
IsWeekendDayNever(dayOfWeek) == FALSE

\* dayOfWeek === 0 || dayOfWeek === 6
IsWeekendDay(dayOfWeek) == dayOfWeek = 0 \/ dayOfWeek = 6

\* the query and slot windows of /api/available-slots
DayWindows(date) ==
    LET year == date.y
        month == date.m - 1
        day == date.d
        utcOffset == IF isEasternTimeDST(date) THEN 4 ELSE 5
    IN  [queryStart |-> DateUTCAt(year, month, day, utcOffset),
         queryEnd |-> DateUTCAt(year, month, day + 1, utcOffset),
         slotsStart |-> DateUTCAt(year, month, day, 9 + utcOffset),
         slotsEnd |-> DateUTCAt(year, month, day, 17 + utcOffset)]

\* mutant: the provider's items are used unfiltered
DayRawEventsUnfiltered(items) == items

\* const rawEvents = response.data.items.filter(...)
DayRawEvents(items) == FilterActive(items)

\* the slots /api/available-slots computes from the items events.list returned
DaySlotsFromItems(date, items) ==
    LET w == DayWindows(date)
        selectedDateUTC == DateUTCAt(date.y, date.m - 1, date.d, 0)
        rawEvents == DayRawEvents(items)
        processedEvents == ProcessEvents(rawEvents, selectedDateUTC,
                                         w.slotsStart, w.slotsEnd, 1)
    IN  calculateAdjacentSlots(processedEvents, w.slotsStart, w.slotsEnd)

\* the handler: [resp, tokens]
AvailableSlotsHandler(date, tokens, cal, refreshOk, listOk) ==
    LET a == ensureValidTokens(tokens, refreshOk)
        base == [NoResp EXCEPT !.op = "day", !.date = date]
        selectedDateUTC == DateUTC(date.y, date.m - 1, date.d)
        dayOfWeek == getUTCDay(selectedDateUTC)
        w == DayWindows(date)
        f == findWorkCalendar(a.tokens, refreshOk)
        calls == a.calls \o f.calls \o << "events.list" >>
    IN  IF ~a.ok
          THEN [resp |-> CatchError([base EXCEPT !.calls = a.calls],
                                    "ensureValidTokens", a.err),
                tokens |-> a.tokens]
        ELSE IF IsWeekendDay(dayOfWeek)
          THEN [resp |-> [base EXCEPT !.status = 200, !.authed = TRUE, !.calls = a.calls],
                tokens |-> a.tokens]
        ELSE IF ~listOk
          THEN [resp |-> CatchError([base EXCEPT !.authed = TRUE, !.calls = calls],
                                    "events.list", UpstreamMessage),
                tokens |-> f.tokens]
        ELSE [resp |-> [base EXCEPT !.status = 200, !.authed = TRUE, !.calls = calls,
                          !.slots = DaySlotsFromItems(date,
                              EventsList(cal, w.queryStart, w.queryEnd, MaxResultsDay))],
              tokens |-> f.tokens]

-----------------------------------------------------------------------------
(* GET /api/month-availability *)

\* new Date(yearNum, monthNum + 1, 0).getDate()
DaysInMonth(yearNum, monthNum) == CivilFromDays(DateUTC(yearNum, monthNum + 1, 1) - 1).d

\* the month's dates, as the keys of the availability object
MonthDates(yearNum, monthNum) ==
    { CivilFromDays(DateUTC(yearNum, monthNum, day)) : day \in 1..DaysInMonth(yearNum, monthNum) }

\* mutant: the provider's items are used unfiltered
MonthEventsUnfiltered(items) == items

\* const events = response.data.items.filter(...)
MonthEvents(items) == FilterActive(items)

\* availability[dateStr] for one day of the loop
MonthDayAvailable(events, yearNum, monthNum, day) ==
    LET currentDate == DateUTC(yearNum, monthNum, day)
        dayOfWeek == getUTCDay(currentDate)                  \* getDay(), local = UTC
        dayEvents == MonthDayEvents(events, yearNum, monthNum, day)
        slotsStart == MonthSlotsStart(yearNum, monthNum, day)
        slotsEnd == MonthSlotsEnd(yearNum, monthNum, day)
    IN  IF IsWeekendDay(dayOfWeek) THEN FALSE
        ELSE Len(calculateAdjacentSlots(dayEvents, slotsStart, slotsEnd)) > 0

\* the availability object computed from the items events.list returned
MonthFromItems(yearNum, monthNum, items) ==
    LET events == MonthEvents(items)
    IN  [dateStr \in MonthDates(yearNum, monthNum) |->
            MonthDayAvailable(events, yearNum, monthNum, dateStr.d)]

MonthAvailabilityHandler(year, month, tokens, cal, refreshOk, listOk) ==
    LET a == ensureValidTokens(tokens, refreshOk)
        yearNum == year
        monthNum == month - 1
        base == [NoResp EXCEPT !.op = "month", !.date = [y |-> year, m |-> month, d |-> 0]]
        f == findWorkCalendar(a.tokens, refreshOk)
        calls == a.calls \o f.calls \o << "events.list" >>
        startOfMonth == DateUTCAt(yearNum, monthNum, 1, 0)
        endOfMonth == DateUTCAt(yearNum, monthNum + 1, 0, 23) + 59 * 60 + 59
    IN  IF ~a.ok
          THEN [resp |-> CatchError([base EXCEPT !.calls = a.calls],
                                    "ensureValidTokens", a.err),
                tokens |-> a.tokens]
        ELSE IF ~listOk
          THEN [resp |-> CatchError([base EXCEPT !.authed = TRUE, !.calls = calls],
                                    "events.list", UpstreamMessage),
                tokens |-> f.tokens]
        ELSE [resp |-> [base EXCEPT !.status = 200, !.authed = TRUE, !.calls = calls,
                          !.month = MonthFromItems(yearNum, monthNum,
                              EventsList(cal, startOfMonth, endOfMonth, MaxResultsMonth))],
              tokens |-> f.tokens]

-----------------------------------------------------------------------------
(* POST /api/book *)

\* the UTC-hour test of the handler; TRUE when the request is rejected
BookOutsideHours(startDate, endDate) ==
    LET startHourUTC == (startDate % DaySec) \div HourSec
        endHourUTC == (endDate % DaySec) \div HourSec
        startMinUTC == getMinutes(startDate)
    IN  \/ startHourUTC < 14
        \/ (startHourUTC = 22 /\ startMinUTC > 0)
        \/ startHourUTC > 22
        \/ endHourUTC < 14
        \/ endHourUTC > 22

\* summary of the items the service inserts
BookedSummary == "Meeting with visitor & Nick Jacobson"

IsBooked(item) == item.summary = BookedSummary

\* the item calendar.events.insert creates; the provider gives it a fresh id
InsertedEvent(cal, startDate, endDate) ==
    LET used == { item.id : item \in cal }
        id == CHOOSE i \in 1..(Cardinality(cal) + 1) : (1000 + i) \notin used
    IN  [TimedEvent(1000 + id, startDate, endDate, "confirmed", "")
            EXCEPT !.summary = BookedSummary]

\* the handler: [resp, tokens, cal]
BookHandler(startTime, endTime, tokens, cal, refreshOk, insertOk) ==
    LET a == ensureValidTokens(tokens, refreshOk)
        base == [NoResp EXCEPT !.op = "book", !.startTime = startTime, !.endTime = endTime]
        startDate == ParseISO(startTime)
        endDate == ParseISO(endTime)
        dayOfWeek == getUTCDay(startDate \div DaySec)         \* getDay(), local = UTC
        f == findWorkCalendar(a.tokens, refreshOk)
        calls == a.calls \o f.calls \o << "events.insert" >>
    IN  IF ~a.ok
          THEN [resp |-> [base EXCEPT !.status = 500, !.err = a.err, !.calls = a.calls],
                tokens |-> a.tokens, cal |-> cal]
        ELSE IF IsWeekendDay(dayOfWeek)
          THEN [resp |-> [base EXCEPT !.status = 400, !.authed = TRUE, !.calls = a.calls,
                            !.err = "Appointments cannot be booked on weekends"],
                tokens |-> a.tokens, cal |-> cal]
        ELSE IF BookOutsideHours(startDate, endDate)
          THEN [resp |-> [base EXCEPT !.status = 400, !.authed = TRUE, !.calls = a.calls,
                            !.err = "Appointments must be between 9AM and 5PM Eastern Time"],
                tokens |-> a.tokens, cal |-> cal]
        ELSE IF ~insertOk
          THEN [resp |-> [base EXCEPT !.status = 500, !.authed = TRUE, !.calls = calls,
                            !.err = "events.insert failed"],
                tokens |-> f.tokens, cal |-> cal]
        ELSE [resp |-> [base EXCEPT !.status = 200, !.authed = TRUE, !.calls = calls],
              tokens |-> f.tokens,
              cal |-> cal \cup { InsertedEvent(cal, startDate, endDate) }]

-----------------------------------------------------------------------------
(* GET /api/date-range-availability *)

\* the query and slot windows of one day of the range
\* mutant: the slots of the range handler begin with the query, at 08:00
RangeWindowsFromEight(day) ==
    LET c == CivilFromDays(day \div DaySec)
        utcOffset == IF isEasternTimeDST(DateStr(day)) THEN 4 ELSE 5
    IN  [queryStart |-> DateUTCAt(c.y, c.m - 1, c.d, 8 + utcOffset),
         queryEnd |-> DateUTCAt(c.y, c.m - 1, c.d, 17 + utcOffset),
         slotsStart |-> DateUTCAt(c.y, c.m - 1, c.d, 8 + utcOffset),
         slotsEnd |-> DateUTCAt(c.y, c.m - 1, c.d, 17 + utcOffset)]

RangeWindows(day) ==
    LET dateStr == DateStr(day)
        c == CivilFromDays(day \div DaySec)          \* getFullYear/getMonth/getDate
        utcOffset == IF isEasternTimeDST(dateStr) THEN 4 ELSE 5
    IN  [queryStart |-> DateUTCAt(c.y, c.m - 1, c.d, 8 + utcOffset),
         queryEnd |-> DateUTCAt(c.y, c.m - 1, c.d, 17 + utcOffset),
         slotsStart |-> DateUTCAt(c.y, c.m - 1, c.d, 9 + utcOffset),
         slotsEnd |-> DateUTCAt(c.y, c.m - 1, c.d, 17 + utcOffset)]

\* mutant: the provider's items are used unfiltered
RangeRawEventsUnfiltered(items) == items

\* const rawEvents = response.data.items.filter(...)
RangeRawEvents(items) == FilterActive(items)

\* rawEvents.forEach(...) of the range handler, from item i on
RECURSIVE ProcessEventsRange(_, _, _, _, _)
ProcessEventsRange(rawEvents, day, slotsStart, slotsEnd, i) ==
    IF i > Len(rawEvents) THEN << >>
    ELSE LET ev == rawEvents[i]
             pushed ==
                 IF ev.kind = "allDay"
                   THEN IF /\ day >= DayOf(ev.startDate) * DaySec
                           /\ day < DayOf(ev.endDate) * DaySec
                          THEN << SyntheticBlock(ev, slotsStart, slotsEnd) >>
                          ELSE << >>
                 ELSE IF ev.kind = "timed"
                   THEN IF /\ ParseISO(ev.startDateTime) < slotsEnd
                           /\ ParseISO(ev.endDateTime) > slotsStart
                          THEN << ev >>
                          ELSE << >>
                 ELSE << >>
         IN  pushed \o ProcessEventsRange(rawEvents, day, slotsStart, slotsEnd, i + 1)

\* availability[dateStr] of a weekday, from its processed events
RangeEntry(dateStr, processedEvents, slotsStart, slotsEnd) ==
    [dateStr |-> dateStr,
     adjacent |-> calculateAdjacentSlots(processedEvents, slotsStart, slotsEnd),
     all |-> calculateAllSlots(processedEvents, slotsStart, slotsEnd),
     isWeekend |-> FALSE]

\* the same from the items events.list returned, w being the windows of the day
RangeEntryInWindows(day, items, w) ==
    RangeEntry(DateStr(day),
               ProcessEventsRange(RangeRawEvents(items), day, w.slotsStart, w.slotsEnd, 1),
               w.slotsStart, w.slotsEnd)

RangeEntryFromItems(day, items) == RangeEntryInWindows(day, items, RangeWindows(day))

\* the same from the calendar: events.list over the query window first
RangeListed(day, cal, w) ==
    RangeEntryInWindows(day, EventsList(cal, w.queryStart, w.queryEnd, MaxResultsDay), w)

RangeDayEntry(day, cal) == RangeListed(day, cal, RangeWindows(day))

\* availability[dateStr] of a Saturday or Sunday
RangeWeekendEntry(day) ==
    [dateStr |-> DateStr(day), adjacent |-> << >>, all |-> << >>, isWeekend |-> TRUE]

\* the days array: while (currentDate <= end) { push; setDate(+1) }
RECURSIVE RangeDays(_, _)
\* mutant: the loop stops before the end date
RangeDaysBeforeEnd(currentDate, end) ==
    IF currentDate < end
      THEN << currentDate >> \o RangeDays(currentDate + DaySec, end)
      ELSE << >>

RangeDays(currentDate, end) ==
    IF currentDate <= end
      THEN << currentDate >> \o RangeDays(currentDate + DaySec, end)
      ELSE << >>

\* the loop body for the weekend days from index idx on, which run without
\* an await: [acc, idx] at the next weekday or past the end
RECURSIVE SkipWeekends(_, _, _)
SkipWeekends(days, acc, idx) ==
    IF idx > Len(days) THEN [acc |-> acc, idx |-> idx]
    ELSE IF IsWeekendDay(getUTCDay(days[idx] \div DaySec))
      THEN SkipWeekends(days, Append(acc, RangeWeekendEntry(days[idx])), idx + 1)
    ELSE [acc |-> acc, idx |-> idx]

NoRange == [active |-> FALSE, days |-> << >>, idx |-> 0, acc |-> << >>, calls |-> << >>]

-----------------------------------------------------------------------------
(* Arguments and results of the function harness *)

\* the App component before it is mounted
NoClient ==
    [selectedDate |-> NoDate, userTimezone |-> "", isLoading |-> FALSE,
     availableSlots |-> << >>, failed |-> FALSE, fetches |-> << >>]

NoInput == [kind |-> "none", date |-> NoDate, t |-> 0, w |-> [start |-> 0, end |-> 0]]

NoOutput ==
    [done |-> FALSE, isDST |-> FALSE, windows |-> [start |-> 0, end |-> 0],
     down |-> 0, up |-> 0, slots |-> << >>, all |-> << >>]

-----------------------------------------------------------------------------
(* Engine harness: the per-day pipeline applied to drawn inputs *)

\* the day the harness computes: Friday 7 March 2025 (Eastern standard time)
HarnessDate == [y |-> 2025, m |-> 3, d |-> 7]

\* an instant of the harness day, by its UTC clock time
H(h, mi, s) == DayOf(HarnessDate) * DaySec + h * HourSec + mi * 60 + s

HarnessDay(k) == CivilFromDays(DayOf(HarnessDate) + k)

RawUniverse ==
    { TimedEvent(1, H(13, 0, 0), H(14, 0, 0), "confirmed", ""),
      TimedEvent(2, H(14, 30, 0), H(15, 0, 0), "confirmed", "opaque"),
      TimedEvent(3, H(15, 0, 0), H(15, 30, 0), "confirmed", ""),
      TimedEvent(4, H(15, 5, 0), H(15, 50, 0), "confirmed", ""),
      TimedEvent(5, H(13, 30, 0), H(14, 30, 0), "tentative", ""),
      TimedEvent(6, H(17, 0, 0), H(18, 0, 0), "confirmed", ""),
      TimedEvent(7, H(14, 30, 0), H(15, 0, 30), "confirmed", ""),
      TimedEvent(8, H(21, 30, 0), H(22, 30, 0), "confirmed", ""),
      TimedEvent(9, H(22, 0, 0), H(23, 0, 0), "confirmed", ""),
      TimedEvent(10, H(16, 0, 0), H(16, 30, 0), "cancelled", ""),
      TimedEvent(11, H(16, 30, 0), H(17, 0, 0), "confirmed", "transparent"),
      AllDayEvent(12, HarnessDay(0), HarnessDay(1), "confirmed", ""),
      AllDayEvent(13, HarnessDay(-1), HarnessDay(0), "confirmed", ""),
      AllDayEvent(14, HarnessDay(0), HarnessDay(1), "confirmed", "transparent"),
      AllDayEvent(15, HarnessDay(1), HarnessDay(2), "confirmed", "") }

\* windows all start at 09:00 Eastern of the harness day; the ends other than
\* 17:00 exercise the tiling loop on other window sizes
HarnessWindows ==
    { [start |-> H(14, 0, 0), end |-> H(22, 0, 0)],
      [start |-> H(14, 0, 0), end |-> H(15, 45, 0)],
      [start |-> H(14, 0, 0), end |-> H(14, 20, 0)],
      [start |-> H(14, 0, 0), end |-> H(14, 0, 0)] }

RECURSIVE SeqsUpTo(_, _)
SeqsUpTo(S, n) ==
    IF n = 0 THEN { << >> }
    ELSE LET shorter == SeqsUpTo(S, n - 1)
         IN  shorter \cup { Append(q, x) : q \in shorter, x \in S }

EngineInit ==
    /\ eRaw \in SeqsUpTo(RawUniverse, MaxEvents)
    /\ eWin \in HarnessWindows
    /\ eProcessed = << >>
    /\ eAdj = << >>
    /\ eAll = << >>
    /\ ePhase = [stage |-> "raw", adj |-> FALSE, all |-> FALSE]
    /\ adminTokens = "null"
    /\ calendar = {}
    /\ resp = NoResp
    /\ rangeReq = NoRange
    /\ fIn = NoInput
    /\ fOut = NoOutput
    /\ client = NoClient

\* the filter and normalizer of /api/available-slots on the drawn items
NormalizeDay ==
    /\ ePhase.stage = "raw"
    /\ eProcessed' = ProcessEvents(FilterActive(eRaw), DayOf(HarnessDate) * DaySec,
                                   eWin.start, eWin.end, 1)
    /\ ePhase' = [ePhase EXCEPT !.stage = "day"]
    /\ UNCHANGED <<eRaw, eWin, eAdj, eAll>>
    /\ UNCHANGED <<serverVars, funVars, client>>

\* the filter of /api/month-availability on the drawn items, with its window
FilterMonthDay ==
    /\ ePhase.stage = "raw"
    /\ eProcessed' = MonthDayEvents(FilterActive(eRaw), HarnessDate.y,
                                    HarnessDate.m - 1, HarnessDate.d)
    /\ eWin' = [start |-> MonthSlotsStart(HarnessDate.y, HarnessDate.m - 1, HarnessDate.d),
                end |-> MonthSlotsEnd(HarnessDate.y, HarnessDate.m - 1, HarnessDate.d)]
    /\ ePhase' = [ePhase EXCEPT !.stage = "month"]
    /\ UNCHANGED <<eRaw, eAdj, eAll>>
    /\ UNCHANGED <<serverVars, funVars, client>>

ComputeAdjacent ==
    /\ ePhase.stage # "raw"
    /\ ~ePhase.adj
    /\ eAdj' = calculateAdjacentSlots(eProcessed, eWin.start, eWin.end)
    /\ ePhase' = [ePhase EXCEPT !.adj = TRUE]
    /\ UNCHANGED <<eRaw, eWin, eProcessed, eAll>>
    /\ UNCHANGED <<serverVars, funVars, client>>

ComputeAll ==
    /\ ePhase.stage # "raw"
    /\ ~ePhase.all
    /\ eAll' = calculateAllSlots(eProcessed, eWin.start, eWin.end)
    /\ ePhase' = [ePhase EXCEPT !.all = TRUE]
    /\ UNCHANGED <<eRaw, eWin, eProcessed, eAdj>>
    /\ UNCHANGED <<serverVars, funVars, client>>

EngineNext ==
    \/ NormalizeDay
    \/ FilterMonthDay
    \/ ComputeAdjacent
    \/ ComputeAll

SpecEngine == EngineInit /\ [][EngineNext]_vars

-----------------------------------------------------------------------------
(* Function harness: isEasternTimeDST and the day windows, the rounding
   functions and the tiling loop on drawn arguments *)

\* the years drawn: 1 March and 1 November fall on every day of the week
FirstYear == 2018
YearCount == 8

\* the dates drawn in a year: around both transitions, and the year's ends
HarnessDates ==
    { [y |-> y, m |-> 3, d |-> d] : y \in FirstYear..(FirstYear + YearCount - 1), d \in 1..22 }
    \cup { [y |-> y, m |-> 10, d |-> d] : y \in FirstYear..(FirstYear + YearCount - 1), d \in {25, 31} }
    \cup { [y |-> y, m |-> 11, d |-> d] : y \in FirstYear..(FirstYear + YearCount - 1), d \in 1..9 }
    \cup { [y |-> y, m |-> m, d |-> d] : y \in FirstYear..(FirstYear + YearCount - 1),
                                         m \in {1, 7, 12}, d \in {1, 31} }

\* the instants drawn: minutes around the grid marks, with and without
\* seconds, in an hour of the day and in its last hour
HarnessInstants ==
    { H(h, mi, sec) : h \in {10, 23}, mi \in {0, 1, 29, 30, 31, 59}, sec \in {0, 1, 59} }

\* the windows drawn: whole and fractional numbers of slots, shorter than a
\* slot, empty and inverted, from a grid mark and from off the grid
HarnessSpans ==
    { [start |-> start, end |-> start + len] :
        start \in {H(14, 0, 0), H(14, 10, 0)},
        len \in {0, 1, 600, 1799, 1800, 1801, 2700, 3600, 5399, 8 * HourSec,
                 8 * HourSec + 1, 0 - 1, 0 - 1800, 0 - 3600} }

FunInputs ==
    { [NoInput EXCEPT !.kind = "date", !.date = date] : date \in HarnessDates }
    \cup { [NoInput EXCEPT !.kind = "instant", !.t = t] : t \in HarnessInstants }
    \cup { [NoInput EXCEPT !.kind = "window", !.w = w] : w \in HarnessSpans }

FunInit ==
    /\ fIn \in FunInputs
    /\ fOut = NoOutput
    /\ client = NoClient
    /\ eRaw = << >>
    /\ eWin = [start |-> 0, end |-> 0]
    /\ eProcessed = << >>
    /\ eAdj = << >>
    /\ eAll = << >>
    /\ ePhase = [stage |-> "off", adj |-> FALSE, all |-> FALSE]
    /\ adminTokens = "null"
    /\ calendar = {}
    /\ resp = NoResp
    /\ rangeReq = NoRange

\* isEasternTimeDST(date) and the slot window of /api/available-slots
ApplyDayWindows ==
    /\ fIn.kind = "date"
    /\ ~fOut.done
    /\ fOut' = [NoOutput EXCEPT !.done = TRUE,
                                !.isDST = isEasternTimeDST(fIn.date),
                                !.windows = [start |-> DayWindows(fIn.date).slotsStart,
                                             end |-> DayWindows(fIn.date).slotsEnd]]
    /\ UNCHANGED <<fIn, engineVars, serverVars, client>>

\* roundDown30(date) and roundUp30(date)
ApplyRounding ==
    /\ fIn.kind = "instant"
    /\ ~fOut.done
    /\ fOut' = [NoOutput EXCEPT !.done = TRUE,
                                !.down = roundDown30(fIn.t),
                                !.up = roundUp30(fIn.t)]
    /\ UNCHANGED <<fIn, engineVars, serverVars, client>>

\* the tiling loop shared by calculateAdjacentSlots and calculateAllSlots,
\* and calculateAllSlots on a window without events
ApplyTiling ==
    /\ fIn.kind = "window"
    /\ ~fOut.done
    /\ fOut' = [NoOutput EXCEPT !.done = TRUE,
                                !.slots = BuildSlots(fIn.w.start, fIn.w.end),
                                !.all = calculateAllSlots(<< >>, fIn.w.start, fIn.w.end)]
    /\ UNCHANGED <<fIn, engineVars, serverVars, client>>

FunNext ==
    \/ ApplyDayWindows
    \/ ApplyRounding
    \/ ApplyTiling

SpecFun == FunInit /\ [][FunNext]_vars

-----------------------------------------------------------------------------
(* The server and its calendar *)

Mar(d) == [y |-> 2025, m |-> 3, d |-> d]

\* an instant of 2025-03-d, by its UTC clock time
M(d, h, mi) == DayOf(Mar(d)) * DaySec + h * HourSec + mi * 60

\* request dates: Friday 7 (standard time), Saturday 8, Sunday 9 (clocks go
\* forward), Monday 10 March 2025 (daylight saving), and "2025-02-35", which
\* is no calendar date: Date.UTC carries it to 7 March, and isEasternTimeDST
\* is false for it whether its Date is invalid or carried
Dates == { Mar(7), Mar(8), Mar(9), Mar(10), [y |-> 2025, m |-> 2, d |-> 35] }

\* the items the calendar owner may put on the calendar
CalUniverse ==
    { TimedEvent(1, M(7, 17, 0), M(7, 18, 0), "confirmed", ""),            \* Fri 12:00-13:00
      TimedEvent(2, M(7, 13, 0), M(7, 14, 0), "confirmed", "opaque"),      \* Fri 08:00-09:00
      TimedEvent(3, M(7, 15, 0), M(7, 16, 0), "cancelled", ""),            \* Fri 10:00-11:00
      TimedEvent(4, M(7, 19, 0), M(7, 20, 0), "confirmed", "transparent"), \* Fri 14:00-15:00
      TimedEvent(5, M(10, 14, 0), M(10, 15, 0), "confirmed", ""),          \* Mon 10:00-11:00
      TimedEvent(6, M(10, 21, 0), M(10, 22, 0), "confirmed", ""),          \* Mon 17:00-18:00
      AllDayEvent(7, Mar(10), Mar(11), "confirmed", ""),
      AllDayEvent(8, Mar(7), Mar(8), "confirmed", "transparent") }

\* the (startDate, endDate) pairs of the range requests
RangeRequests ==
    { [start |-> Mar(7), end |-> Mar(7)], [start |-> Mar(7), end |-> Mar(10)],
      [start |-> Mar(8), end |-> Mar(9)], [start |-> Mar(10), end |-> Mar(7)] }

\* the outcomes of a call to the provider that the handler makes only when
\* `made` holds
Outcomes(made) == IF made THEN BOOLEAN ELSE {TRUE}

\* the (startTime, endTime) pairs of the booking requests
BookRequests ==
    { [start |-> M(7, 16, 30), end |-> M(7, 17, 0)],     \* Fri 11:30-12:00 EST
      [start |-> M(7, 13, 0), end |-> M(7, 13, 30)],     \* Fri 08:00-08:30 EST
      [start |-> M(7, 22, 0), end |-> M(7, 22, 30)],     \* Fri 17:00-17:30 EST
      [start |-> M(8, 15, 0), end |-> M(8, 15, 30)],     \* Sat 10:00-10:30 EST
      [start |-> M(10, 13, 30), end |-> M(10, 14, 0)],   \* Mon 09:30-10:00 EDT
      [start |-> M(10, 21, 30), end |-> M(10, 22, 0)] }  \* Mon 17:30-18:00 EDT

Init ==
    /\ adminTokens \in {"null", "valid", "expired"}
    /\ calendar = {}
    /\ resp = NoResp
    /\ rangeReq = NoRange
    /\ eRaw = << >>
    /\ eWin = [start |-> 0, end |-> 0]
    /\ eProcessed = << >>
    /\ eAdj = << >>
    /\ eAll = << >>
    /\ ePhase = [stage |-> "off", adj |-> FALSE, all |-> FALSE]
    /\ fIn = NoInput
    /\ fOut = NoOutput
    /\ client = NoClient

\* the owner puts an item on the calendar
AddEvent ==
    \E item \in CalUniverse \ calendar :
        /\ resp = NoResp
        /\ Cardinality(calendar) < MaxCalendar
        /\ calendar' = calendar \cup {item}
        /\ UNCHANGED <<adminTokens, resp, rangeReq, engineVars, funVars, client>>

\* the owner deletes an item
RemoveEvent ==
    \E item \in calendar :
        /\ resp = NoResp
        /\ calendar' = calendar \ {item}
        /\ UNCHANGED <<adminTokens, resp, rangeReq, engineVars, funVars, client>>

\* the access token passes its expiry_date
TokenExpire ==
    /\ resp = NoResp
    /\ adminTokens = "valid"
    /\ adminTokens' = "expired"
    /\ UNCHANGED <<calendar, resp, rangeReq, engineVars, funVars, client>>

\* the client has received the response of the last request
Deliver ==
    /\ resp # NoResp
    /\ resp' = NoResp
    /\ UNCHANGED <<adminTokens, calendar, rangeReq, engineVars, funVars, client>>

\* GET /auth/google/callback
AuthCallback ==
    \E getTokenOk \in BOOLEAN :
        /\ resp = NoResp
        /\ ~rangeReq.active
        /\ adminTokens' = IF getTokenOk THEN "valid" ELSE adminTokens
        /\ resp' = [NoResp EXCEPT !.op = "authCallback",
                                  !.status = IF getTokenOk THEN 200 ELSE 500]
        /\ UNCHANGED <<calendar, rangeReq, engineVars, funVars, client>>

\* GET /api/check-admin-auth
CheckAdminAuth ==
    /\ resp = NoResp
    /\ ~rangeReq.active
    /\ resp' = [NoResp EXCEPT !.op = "checkAuth", !.status = 200,
                              !.authed = (adminTokens # "null")]
    /\ UNCHANGED <<adminTokens, calendar, rangeReq, engineVars, funVars, client>>

\* GET /api/available-slots?date=
GetAvailableSlots ==
    \E date \in Dates, refreshOk \in Outcomes(adminTokens = "expired"),
       listOk \in Outcomes(adminTokens # "null") :
        /\ resp = NoResp
        /\ ~rangeReq.active
        /\ LET r == AvailableSlotsHandler(date, adminTokens, calendar, refreshOk, listOk)
           IN  /\ resp' = r.resp
               /\ adminTokens' = r.tokens
        /\ UNCHANGED <<calendar, rangeReq, engineVars, funVars, client>>

\* GET /api/month-availability?year=2025&month=3
GetMonthAvailability ==
    \E refreshOk \in Outcomes(adminTokens = "expired"),
       listOk \in Outcomes(adminTokens # "null") :
        /\ resp = NoResp
        /\ ~rangeReq.active
        /\ LET r == MonthAvailabilityHandler(2025, 3, adminTokens, calendar, refreshOk, listOk)
           IN  /\ resp' = r.resp
               /\ adminTokens' = r.tokens
        /\ UNCHANGED <<calendar, rangeReq, engineVars, funVars, client>>

\* POST /api/book
PostBook ==
    \E b \in BookRequests, refreshOk \in Outcomes(adminTokens = "expired"),
       insertOk \in Outcomes(adminTokens # "null") :
        /\ resp = NoResp
        /\ ~rangeReq.active
        /\ Cardinality(calendar) < MaxCalendar
        /\ LET r == BookHandler(toISOString(b.start), toISOString(b.end),
                                adminTokens, calendar, refreshOk, insertOk)
           IN  /\ resp' = r.resp
               /\ adminTokens' = r.tokens
               /\ calendar' = r.cal
        /\ UNCHANGED <<rangeReq, engineVars, funVars, client>>

\* GET /api/date-range-availability: up to the first await of the day loop
RangeBegin ==
    \E q \in RangeRequests, refreshOk \in Outcomes(adminTokens = "expired") :
        /\ resp = NoResp
        /\ ~rangeReq.active
        /\ LET a == ensureValidTokens(adminTokens, refreshOk)
               base == [NoResp EXCEPT !.op = "range", !.date = q.start,
                                      !.endDate = q.end, !.calls = a.calls]
               start == DayOf(q.start) * DaySec          \* new Date(startDate)
               end == DayOf(q.end) * DaySec
               days == RangeDays(start, end)
               sk == SkipWeekends(days, << >>, 1)
           IN  /\ adminTokens' = a.tokens
               /\ IF ~a.ok
                    THEN /\ resp' = CatchError(base, "ensureValidTokens", a.err)
                         /\ rangeReq' = NoRange
                  ELSE IF start > end
                    THEN /\ resp' = [base EXCEPT !.status = 400, !.authed = TRUE,
                                       !.err = "Start date must be before end date"]
                         /\ rangeReq' = NoRange
                  ELSE IF sk.idx > Len(days)
                    THEN /\ resp' = [base EXCEPT !.status = 200, !.authed = TRUE,
                                                 !.range = sk.acc]
                         /\ rangeReq' = NoRange
                  ELSE /\ resp' = NoResp
                       /\ rangeReq' = [active |-> TRUE, days |-> days, idx |-> sk.idx,
                                       acc |-> sk.acc, calls |-> a.calls]
        /\ UNCHANGED <<calendar, engineVars, funVars, client>>

\* the end of one weekday of the loop: the error response if events.list threw,
\* the response if sk is past the last day, else the request at the next await
RangeRespond(req, calls, listOk, sk, fresh) ==
    LET base == [NoResp EXCEPT !.op = "range", !.date = DateStr(req.days[1]),
                               !.endDate = DateStr(req.days[Len(req.days)]),
                               !.authed = TRUE, !.calls = calls]
    IN  IF ~listOk
          THEN [resp |-> CatchError(base, "events.list", UpstreamMessage),
                rangeReq |-> NoRange]
        ELSE IF sk.idx > Len(req.days)
          THEN [resp |-> [base EXCEPT !.status = 200, !.range = sk.acc, !.fresh = fresh],
                rangeReq |-> NoRange]
        ELSE [resp |-> NoResp,
              rangeReq |-> [req EXCEPT !.idx = sk.idx, !.acc = sk.acc, !.calls = calls]]

RangeAdvance(req, calls, listOk, acc) ==
    RangeRespond(req, calls, listOk, SkipWeekends(req.days, acc, req.idx + 1), Len(acc))

\* one weekday of the loop (findWorkCalendar, events.list, the two engines),
\* the weekend days after it, and the response after the last day
RangeStep ==
    \E refreshOk \in Outcomes(adminTokens = "expired"), listOk \in BOOLEAN :
        /\ rangeReq.active
        /\ LET f == findWorkCalendar(adminTokens, refreshOk)
               r == RangeAdvance(rangeReq, rangeReq.calls \o f.calls \o << "events.list" >>,
                                 listOk,
                                 Append(rangeReq.acc,
                                        RangeDayEntry(rangeReq.days[rangeReq.idx], calendar)))
           IN  /\ adminTokens' = f.tokens
               /\ resp' = r.resp
               /\ rangeReq' = r.rangeReq
        /\ UNCHANGED <<calendar, engineVars, funVars, client>>

Next ==
    \/ AddEvent
    \/ RemoveEvent
    \/ TokenExpire
    \/ Deliver
    \/ AuthCallback
    \/ CheckAdminAuth
    \/ GetAvailableSlots
    \/ GetMonthAvailability
    \/ PostBook
    \/ RangeBegin
    \/ RangeStep

Spec == Init /\ [][Next]_vars

-----------------------------------------------------------------------------
(* The client: App.js and its requests to /api/available-slots *)

\* requests in flight at one time
MaxFetches == 2

\* the dates picked: Friday 7, Saturday 8 and Monday 10 March 2025
ClientDates == { Mar(7), Mar(8), Mar(10) }

\* two of the commonTimezones
Timezones == { "America/New_York", "Europe/London" }

\* the calendars the server answers from
ClientCalendars == SUBSET { item \in CalUniverse : item.id \in {1, 5} }

\* fetchAvailableSlots up to its await: setIsLoading(true) and the request,
\* which carries the date and timezone selected when it is sent
fetchAvailableSlots(c) ==
    [c EXCEPT !.isLoading = TRUE,
              !.fetches = Append(@, [date |-> c.selectedDate, timezone |-> c.userTimezone])]

\* fetchAvailableSlots after its await: setAvailableSlots(response.data), or
\* setAvailableSlots([]) in the catch, and setIsLoading(false) in the finally
fetchSettled(c, i, response) ==
    [c EXCEPT !.availableSlots = IF response.status = 200 THEN response.slots ELSE << >>,
              !.failed = (response.status # 200),
              !.isLoading = FALSE,
              !.fetches = SubSeq(@, 1, i - 1) \o SubSeq(@, i + 1, Len(@))]

\* the App mounted and ready; the effect has sent the first request
ClientInit ==
    /\ \E d \in ClientDates, tz \in Timezones :
          client = fetchAvailableSlots([NoClient EXCEPT !.selectedDate = d,
                                                        !.userTimezone = tz])
    /\ adminTokens = "valid"
    /\ calendar \in ClientCalendars
    /\ resp = NoResp
    /\ rangeReq = NoRange
    /\ eRaw = << >>
    /\ eWin = [start |-> 0, end |-> 0]
    /\ eProcessed = << >>
    /\ eAdj = << >>
    /\ eAll = << >>
    /\ ePhase = [stage |-> "off", adj |-> FALSE, all |-> FALSE]
    /\ fIn = NoInput
    /\ fOut = NoOutput

\* handleDateChange, and the effect on [isAppReady, selectedDate, userTimezone]
handleDateChange ==
    \E date \in ClientDates :
        /\ Len(client.fetches) < MaxFetches
        /\ client' = fetchAvailableSlots([client EXCEPT !.selectedDate = date])
        /\ UNCHANGED <<engineVars, serverVars, funVars>>

\* handleTimezoneChange, and the same effect
handleTimezoneChange ==
    \E tz \in Timezones \ {client.userTimezone} :
        /\ Len(client.fetches) < MaxFetches
        /\ client' = fetchAvailableSlots([client EXCEPT !.userTimezone = tz])
        /\ UNCHANGED <<engineVars, serverVars, funVars>>

\* the response to one of the requests in flight arrives
FetchResponse ==
    \E i \in DOMAIN client.fetches, listOk \in BOOLEAN :
        /\ client' = fetchSettled(client, i,
                        AvailableSlotsHandler(client.fetches[i].date, adminTokens,
                                              calendar, TRUE, listOk).resp)
        /\ UNCHANGED <<engineVars, serverVars, funVars>>

ClientNext ==
    \/ handleDateChange
    \/ handleTimezoneChange
    \/ FetchResponse

SpecClient == ClientInit /\ [][ClientNext]_vars

-----------------------------------------------------------------------------
(* Reference notions used by the properties *)

\* number of whole slots that fit the window
TileCount(w) == IF w.end > w.start THEN (w.end - w.start) \div SlotSec ELSE 0

\* the k-th tiled slot of the window, k = 0, 1, ...
Tile(w, k) == [start |-> w.start + k * SlotSec, end |-> w.start + (k + 1) * SlotSec]

EvStart(event) == ParseISO(event.startDateTime)
EvEnd(event) == ParseISO(event.endDateTime)

Intersects(s, event) == s.start < EvEnd(event) /\ s.end > EvStart(event)

\* the tiled slots of the window, in window order
Tiles(w) == [k \in 1..TileCount(w) |-> Tile(w, k - 1)]

\* slots as the engine returns them
Returned(slots) ==
    [i \in DOMAIN slots |-> [start |-> toISOString(slots[i].start),
                             end |-> toISOString(slots[i].end)]]

\* floor and ceiling on the half-hour grid of the clock
GridFloor(t) == t - (t % SlotSec)
GridCeil(t) == IF t % SlotSec = 0 THEN t ELSE t - (t % SlotSec) + SlotSec

SeqToSet(q) == { q[i] : i \in DOMAIN q }

-----------------------------------------------------------------------------
(* Properties of the slot engine (under SpecEngine) *)

\* C1: calculateAdjacentSlots returns exactly the tiled slots that (a) intersect
\* no processed event and (b) end at roundDown30(start) or start at
\* roundUp30(end) of some non-synthetic event; the short-circuits of the loop
\* do not change this.
C1_AdjacentExactlyFreeAndBordering ==
    ePhase.adj =>
        LET Free(s) == \A i \in DOMAIN eProcessed : ~Intersects(s, eProcessed[i])
            Borders(s) == \E i \in DOMAIN eProcessed :
                /\ ~eProcessed[i].isSyntheticAllDay
                /\ \/ s.end = roundDown30(EvStart(eProcessed[i]))
                   \/ s.start = roundUp30(EvEnd(eProcessed[i]))
            Keep(s) == Free(s) /\ Borders(s)
        IN  eAdj = Returned(SelectSeq(Tiles(eWin), Keep))

\* C1 witness: a slot borders one event and is covered by an earlier or later
\* one, next to a slot that is returned.
C1_Witness ==
    /\ ePhase.adj
    /\ Len(eProcessed) = 2
    /\ eAdj # << >>
    /\ \E k \in 0..(TileCount(eWin) - 1) :
         /\ Intersects(Tile(eWin, k), eProcessed[1])
         /\ Tile(eWin, k).end = roundDown30(EvStart(eProcessed[2]))
         /\ ~eProcessed[2].isSyntheticAllDay

SingleTimedInside ==
    /\ Len(eProcessed) = 1
    /\ ~eProcessed[1].isSyntheticAllDay
    /\ eWin.start <= EvStart(eProcessed[1])
    /\ EvStart(eProcessed[1]) <= EvEnd(eProcessed[1])
    /\ EvEnd(eProcessed[1]) <= eWin.end

\* C7: one timed event on slot boundaries inside the window: the adjacent
\* result is exactly the slot ending at its start and the slot starting at its
\* end (each when it is a tiled slot), the all-free result every tiled slot
\* the event does not cover.
C7_AlignedSingleEvent ==
    (/\ ePhase.adj /\ ePhase.all
     /\ SingleTimedInside
     /\ (EvStart(eProcessed[1]) - eWin.start) % SlotSec = 0
     /\ (EvEnd(eProcessed[1]) - eWin.start) % SlotSec = 0)
    => LET es == EvStart(eProcessed[1])
           ee == EvEnd(eProcessed[1])
           Neighbour(s) == s.end = es \/ s.start = ee
           Uncovered(s) == s.end <= es \/ s.start >= ee
       IN  /\ eAdj = Returned(SelectSeq(Tiles(eWin), Neighbour))
           /\ eAll = Returned(SelectSeq(Tiles(eWin), Uncovered))

\* C7 witness: the 09:00-17:00 window with one event 12:00-13:00 Eastern:
\* adjacent 11:30-12:00 and 13:00-13:30, all-free the other 14 slots.
C7_Witness ==
    /\ ePhase.adj /\ ePhase.all
    /\ eWin = [start |-> H(14, 0, 0), end |-> H(22, 0, 0)]
    /\ Len(eProcessed) = 1
    /\ EvStart(eProcessed[1]) = H(17, 0, 0) /\ EvEnd(eProcessed[1]) = H(18, 0, 0)
    /\ eAdj = << [start |-> toISOString(H(16, 30, 0)), end |-> toISOString(H(17, 0, 0))],
                 [start |-> toISOString(H(18, 0, 0)), end |-> toISOString(H(18, 30, 0))] >>
    /\ Len(eAll) = 14

\* C8: one timed event inside the window whose start and end are whole
\* minutes off the slot boundaries: the adjacent result is exactly the slot
\* ending at the start rounded down to the grid and the slot starting at the
\* end rounded up to the grid, and no returned slot intersects the event.
C8_UnalignedSingleEvent ==
    (/\ ePhase.adj /\ ePhase.all
     /\ SingleTimedInside
     /\ EvStart(eProcessed[1]) % 60 = 0 /\ EvEnd(eProcessed[1]) % 60 = 0
     /\ EvStart(eProcessed[1]) % SlotSec # 0
     /\ EvEnd(eProcessed[1]) % SlotSec # 0)
    => LET es == EvStart(eProcessed[1])
           ee == EvEnd(eProcessed[1])
           Neighbour(s) == s.end = GridFloor(es) \/ s.start = GridCeil(ee)
       IN  /\ eAdj = Returned(SelectSeq(Tiles(eWin), Neighbour))
           /\ \A i \in DOMAIN eAdj :
                ~(ParseISO(eAdj[i].start) < ee /\ ParseISO(eAdj[i].end) > es)
           /\ \A i \in DOMAIN eAll :
                ~(ParseISO(eAll[i].start) < ee /\ ParseISO(eAll[i].end) > es)

\* C8 witness: the event 10:05-10:50 Eastern gives 09:30-10:00 and 11:00-11:30.
C8_Witness ==
    /\ ePhase.adj /\ ePhase.all
    /\ Len(eProcessed) = 1
    /\ EvStart(eProcessed[1]) = H(15, 5, 0) /\ EvEnd(eProcessed[1]) = H(15, 50, 0)
    /\ eAdj = << [start |-> toISOString(H(14, 30, 0)), end |-> toISOString(H(15, 0, 0))],
                 [start |-> toISOString(H(16, 0, 0)), end |-> toISOString(H(16, 30, 0))] >>

-----------------------------------------------------------------------------
(* Properties of the server, checked under Spec *)

\* the calendar without its cancelled and transparent items
ActiveItems(cal) == { item \in cal : IsActive(item) }

\* a returned slot against a timed item
SlotIntersects(slot, item) ==
    ParseISO(slot.start) < EvEnd(item) /\ ParseISO(slot.end) > EvStart(item)

\* no slot of the list intersects an active timed item of the calendar
NoneIntersects(slots, cal) ==
    \A i \in DOMAIN slots : \A item \in ActiveItems(cal) :
        item.kind = "timed" => ~SlotIntersects(slots[i], item)

DayAnswered == resp.op = "day" /\ resp.status = 200
MonthAnswered == resp.op = "month" /\ resp.status = 200

\* a range response whose entry resp.fresh was computed from the present calendar
RangeAnswered == resp.op = "range" /\ resp.status = 200 /\ resp.fresh > 0
FreshEntry == resp.range[resp.fresh]

\* the all-day items whose [startDate, endDate) holds the date
AllDayOn(cal, date) ==
    { item \in cal : /\ item.kind = "allDay"
                     /\ DayOf(item.startDate) <= DayOf(date)
                     /\ DayOf(date) < DayOf(item.endDate) }

\* the timed items that intersect 09:00-17:00 Eastern of the date
TimedOn(cal, date) ==
    { item \in cal : /\ item.kind = "timed"
                     /\ EvStart(item) < EasternMidnight(DayOf(date)) + 17 * HourSec
                     /\ EvEnd(item) > EasternMidnight(DayOf(date)) + 9 * HourSec }

\* C2: no slot returned by the day endpoint, and no slot in `adjacent` or
\* `all` of a range entry, intersects a non-cancelled, non-transparent timed
\* event of the calendar it was computed from.
C2_NoReturnedSlotIntersectsEvent ==
    /\ DayAnswered => NoneIntersects(resp.slots, calendar)
    /\ RangeAnswered => /\ NoneIntersects(FreshEntry.adjacent, calendar)
                        /\ NoneIntersects(FreshEntry.all, calendar)

\* C2 witness: a range entry with free slots, one of them adjacent, for a day
\* that holds two active timed events.
C2_Witness ==
    /\ RangeAnswered
    /\ FreshEntry.adjacent # << >>
    /\ Len(FreshEntry.all) > Len(FreshEntry.adjacent)
    /\ Cardinality(TimedOn(ActiveItems(calendar), FreshEntry.dateStr)) = 2

\* wall-clock Eastern time of an instant, as seconds since the epoch of a
\* clock that shows Eastern time
EasternWallClock(t) == t - EasternOffsetAt(t) * HourSec

\* the instant lies within 09:00-17:00 Eastern of a Monday-Friday
InEasternBusinessHours(t) ==
    /\ getUTCDay(EasternWallClock(t) \div DaySec) \in 1..5
    /\ EasternWallClock(t) % DaySec >= 9 * HourSec
    /\ EasternWallClock(t) % DaySec <= 17 * HourSec

\* C4: POST /api/book inserts an event only if startTime and endTime lie
\* within 09:00-17:00 Eastern wall-clock time of a weekday, so every event the
\* service inserted lies within these hours; every other request inserts
\* nothing and, unless the provider failed, is answered 400.
C4_BookOnlyInEasternBusinessHours ==
    /\ \A item \in calendar :
          IsBooked(item) => /\ InEasternBusinessHours(EvStart(item))
                            /\ InEasternBusinessHours(EvEnd(item))
    /\ (/\ resp.op = "book" /\ resp.authed /\ resp.status # 500
        /\ ~(/\ InEasternBusinessHours(ParseISO(resp.startTime))
             /\ InEasternBusinessHours(ParseISO(resp.endTime))))
       => resp.status = 400

\* what the day endpoint answers for the date on the present calendar when
\* the provider calls succeed
DayAnswerFor(date, cal) == AvailableSlotsHandler(date, "valid", cal, TRUE, TRUE).resp.slots

\* C5: the month map holds true for a date exactly when the day endpoint
\* returns a non-empty list for it on the same calendar; Saturdays and
\* Sundays map to false.
C5_MonthAgreesWithDay ==
    MonthAnswered =>
        \A date \in DOMAIN resp.month :
            /\ resp.month[date] = (DayAnswerFor(date, calendar) # << >>)
            /\ getUTCDay(DayOf(date)) \in {0, 6} => ~resp.month[date]

C9_InactiveEventsHaveNoEffect ==
    /\ DayAnswered => resp.slots = DayAnswerFor(resp.date, ActiveItems(calendar))
    /\ MonthAnswered =>
          resp.month = MonthAvailabilityHandler(resp.date.y, resp.date.m, "valid",
                                                ActiveItems(calendar), TRUE, TRUE).resp.month
    /\ RangeAnswered =>
          FreshEntry = RangeDayEntry(DayOf(FreshEntry.dateStr) * DaySec,
                                     ActiveItems(calendar))

\* C9 witness: the day endpoint returned slots for a day that holds an active
\* timed event and, inside business hours, a cancelled or transparent one.
C9_Witness ==
    /\ DayAnswered
    /\ resp.slots # << >>
    /\ TimedOn(calendar, resp.date) \ ActiveItems(calendar) # {}
    /\ TimedOn(ActiveItems(calendar), resp.date) # {}

\* C10: with valid admin credentials, the day endpoint answers a Saturday or
\* Sunday with [] and makes no events.list and no calendarList.list call.
C10_WeekendAnsweredWithoutQuery ==
    (resp.op = "day" /\ resp.authed /\ getUTCDay(DayOf(resp.date)) \in {0, 6})
    => /\ resp.status = 200
       /\ resp.slots = << >>
       /\ \A i \in DOMAIN resp.calls :
            resp.calls[i] \notin {"events.list", "calendarList.list"}

\* C10 witness: a Sunday was answered while the calendar holds events.
C10_Witness ==
    /\ resp.op = "day" /\ resp.authed
    /\ getUTCDay(DayOf(resp.date)) = 0
    /\ calendar # {}
    /\ resp.status = 200 /\ resp.slots = << >>

\* the items events.list returns for the full Eastern day of the date that
\* the 08:00-17:00 query of the range handler does not return
OnlyInDayQuery(cal, date) ==
    { item \in cal :
        /\ ItemStart(item) < DayWindows(date).queryEnd
        /\ ItemEnd(item) > DayWindows(date).queryStart
        /\ ~(/\ ItemStart(item) < RangeWindows(DayOf(date) * DaySec).queryEnd
             /\ ItemEnd(item) > RangeWindows(DayOf(date) * DaySec).queryStart) }

CountCalls(calls, kind) == Cardinality({ i \in DOMAIN calls : calls[i] = kind })

\* entry i of the range answer is the entry of the i-th date from the start
\* date, a weekend entry exactly on Saturdays and Sundays
RangeEntryInPlace(i) ==
    LET n == DayOf(resp.date) + i - 1
        entry == resp.range[i]
    IN  /\ entry.dateStr = CivilFromDays(n)
        /\ entry.isWeekend = (getUTCDay(n) \in {0, 6})
        /\ entry.isWeekend => entry.adjacent = << >> /\ entry.all = << >>

\* the shape of the answers of the range endpoint
RangeAnswerShape ==
    (resp.op = "range" /\ resp.authed) =>
        IF DayOf(resp.date) > DayOf(resp.endDate)
          THEN resp.status = 400 /\ resp.calls = << >>
        ELSE resp.status = 200 =>
               /\ Len(resp.range) = DayOf(resp.endDate) - DayOf(resp.date) + 1
               /\ \A i \in DOMAIN resp.range : RangeEntryInPlace(i)
               /\ CountCalls(resp.calls, "events.list")
                    = Cardinality({ i \in DOMAIN resp.range : ~resp.range[i].isWeekend })

\* every step of a range request in progress moves it to a later day of its
\* list or ends it, and its position stays within the list
RangeProgress ==
    rangeReq.active =>
        /\ rangeReq.idx \in 1..Len(rangeReq.days)
        /\ rangeReq' # rangeReq =>
              \/ ~rangeReq'.active
              \/ rangeReq'.days = rangeReq.days /\ rangeReq'.idx > rangeReq.idx

-----------------------------------------------------------------------------
(* Properties of the functions, checked under SpecFun *)

\* the day of month of the n-th Sunday of month m of year y
NthSunday(y, m, n) ==
    CHOOSE d \in (7 * n - 6)..(7 * n) : getUTCDay(DayOf([y |-> y, m |-> m, d |-> d])) = 0

\* the date lies in [second Sunday of March, first Sunday of November)
InDaylightSaving(date) ==
    /\ DayOf(date) >= DayOf([y |-> date.y, m |-> 3, d |-> NthSunday(date.y, 3, 2)])
    /\ DayOf(date) < DayOf([y |-> date.y, m |-> 11, d |-> NthSunday(date.y, 11, 1)])

\* C13: isEasternTimeDST is true exactly for the dates from the second Sunday
\* of March up to, not including, the first Sunday of November, and the slot
\* window of the day endpoint is 09:00-17:00 of the date shifted by 4 hours
\* on these dates and by 5 hours on the others.
C13_DayWindowFollowsDstRule ==
    (fIn.kind = "date" /\ fOut.done) =>
        LET offset == IF InDaylightSaving(fIn.date) THEN 4 ELSE 5
        IN  /\ fOut.isDST = InDaylightSaving(fIn.date)
            /\ fOut.windows.start = DayOf(fIn.date) * DaySec + (9 + offset) * HourSec
            /\ fOut.windows.end = DayOf(fIn.date) * DaySec + (17 + offset) * HourSec

\* C13 witness: Sunday 8 March 2020, the second Sunday of a March that begins
\* on a Sunday, is daylight-saving time.
C13_Witness ==
    /\ fOut.done
    /\ fIn.date = [y |-> 2020, m |-> 3, d |-> 8]
    /\ getUTCDay(DayOf([y |-> 2020, m |-> 3, d |-> 1])) = 0
    /\ fOut.isDST
    /\ fOut.windows.start = DayOf(fIn.date) * DaySec + 13 * HourSec

-----------------------------------------------------------------------------
(* Invalid dates *)

\* the date names a day of the calendar: it is the date of its own day number
ValidCalendarDate(date) == CivilFromDays(DayOf(date)) = date

\* C14: a day request whose date is not a calendar date, when it is not
\* failed by the token refresh or the provider, is answered with a client
\* error (4xx) and without a slot list.
C14_InvalidDateRejected ==
    (resp.op = "day" /\ ~ValidCalendarDate(resp.date) /\ resp.status # 500) =>
        /\ resp.status \in 400..499
        /\ resp.slots = << >>

-----------------------------------------------------------------------------
(* Provider failures *)

\* the weekdays among the dates of the range request answered by resp
RangeWeekdays ==
    { n \in DayOf(resp.date)..DayOf(resp.endDate) : getUTCDay(n) \notin {0, 6} }

\* C15: when events.list fails during a day, month or range request, the
\* answer is status 500 with the upstream error message and no slot data,
\* the failed call is the last call made (it is not retried, and no later
\* day of a range is queried), and the range request is over.
C15_ListFailureAnswered500 ==
    (resp.op \in {"day", "month", "range"} /\ resp.threw = "events.list") =>
        /\ resp.status = 500
        /\ resp.err = UpstreamMessage
        /\ resp.slots = << >> /\ resp.month = << >> /\ resp.range = << >>
        /\ resp.calls # << >>
        /\ resp.calls[Len(resp.calls)] = "events.list"
        /\ resp.op \in {"day", "month"} => CountCalls(resp.calls, "events.list") = 1
        /\ resp.op = "range" =>
               CountCalls(resp.calls, "events.list") <= Cardinality(RangeWeekdays)
        /\ ~rangeReq.active

\* C15 witness: a range request over two weekdays failed at its second
\* events.list call, after the first day had been computed.
C15_Witness ==
    /\ resp.op = "range" /\ resp.threw = "events.list"
    /\ resp.status = 500
    /\ CountCalls(resp.calls, "events.list") = 2
    /\ resp.range = << >>
    /\ calendar # {}

-----------------------------------------------------------------------------
(* Rounding and tiling, checked under SpecFun *)

\* C16: roundUp30(t) is the least instant of the 30-minute grid that is not
\* before t, and roundDown30(t) the greatest that is not after t, so that
\* roundDown30(t) <= t <= roundUp30(t), seconds included.
C16_RoundingIsFloorAndCeiling ==
    (fIn.kind = "instant" /\ fOut.done) =>
        /\ fOut.up = GridCeil(fIn.t)
        /\ fOut.down = GridFloor(fIn.t)
        /\ fOut.down <= fIn.t /\ fIn.t <= fOut.up

\* C17: the tiling loop yields floor((end - start) / 30 min) slots, none for
\* a window shorter than a slot or with start >= end; the k-th begins
\* 30 (k - 1) minutes after the window start and lasts 30 minutes, so the
\* slots are consecutive and a trailing partial slot is absent; on a window
\* without events calculateAllSlots returns these slots.
C17_TilingYieldsWholeSlots ==
    (fIn.kind = "window" /\ fOut.done) =>
        /\ Len(fOut.slots) = TileCount(fIn.w)
        /\ \A k \in 1..Len(fOut.slots) :
             /\ fOut.slots[k].start = fIn.w.start + (k - 1) * SlotSec
             /\ fOut.slots[k].end = fOut.slots[k].start + SlotSec
             /\ fOut.slots[k].end <= fIn.w.end
        /\ fOut.all = [k \in 1..Len(fOut.slots) |->
                          [start |-> toISOString(fOut.slots[k].start),
                           end |-> toISOString(fOut.slots[k].end)]]

\* C17 witness: a window of 45 minutes was tiled into one slot, its trailing
\* 15 minutes dropped.
C17_Witness ==
    /\ fIn.kind = "window" /\ fOut.done
    /\ fIn.w.end - fIn.w.start = 2700
    /\ Len(fOut.slots) = 1
    /\ fOut.slots[1].end < fIn.w.end

\* a window with its start after its end was tiled into no slot
C17_WitnessInverted ==
    /\ fIn.kind = "window" /\ fOut.done
    /\ fIn.w.start > fIn.w.end
    /\ fOut.slots = << >>

-----------------------------------------------------------------------------
(* The normalizer, checked under SpecEngine *)

\* the item is an active timed event that meets the window only at an edge
TouchesOnlyAtEdge(item, w) ==
    /\ item.kind = "timed"
    /\ IsActive(item)
    /\ (EvEnd(item) = w.start \/ EvStart(item) = w.end)

\* C18: an active timed event that ends exactly at the window start, or
\* starts exactly at the window end, is among the events the day normalizer
\* hands to the engine, for the window of 09:00-17:00.
C18_EdgeTouchingEventKept ==
    (ePhase.stage = "day" /\ eWin.end - eWin.start = 8 * HourSec) =>
        \A i \in DOMAIN eRaw :
            TouchesOnlyAtEdge(eRaw[i], eWin) =>
                \E j \in DOMAIN eProcessed : eProcessed[j] = eRaw[i]


IsTimedItem(item) == item.kind = "timed" /\ ~item.isSyntheticAllDay

IsSyntheticItem(item) == item.isSyntheticAllDay

\* eventStart < window.end and eventEnd > window.start, for the drawn window
OverlapsDrawnWindow(item) ==
    item.kind = "timed" /\ EvStart(item) < eWin.end /\ EvEnd(item) > eWin.start

\* C19: the timed events the day normalizer hands to the engine are exactly
\* the active timed events with eventStart < window.end and eventEnd >
\* window.start, in their order and as the records the provider gave (start
\* and end not cut to the window); every adjacent slot returned ends at the
\* rounded-down original start, or begins at the rounded-up original end, of
\* an event handed over.
C19_KeptEventsKeepOriginalInstants ==
    ePhase.stage = "day" =>
        /\ SelectSeq(eProcessed, IsTimedItem)
             = SelectSeq(FilterActive(eRaw), OverlapsDrawnWindow)
        /\ ePhase.adj =>
             \A k \in DOMAIN eAdj :
                \E j \in DOMAIN eProcessed :
                    \/ ParseISO(eAdj[k].end) = roundDown30(EvStart(eProcessed[j]))
                    \/ ParseISO(eAdj[k].start) = roundUp30(EvEnd(eProcessed[j]))

\* C19 witness: an event that begins before the window and ends inside it was
\* handed over with its own start, and the slot after it was returned.
C19_Witness ==
    /\ ePhase.stage = "day" /\ ePhase.adj
    /\ eWin.end - eWin.start = 8 * HourSec
    /\ \E j \in DOMAIN eProcessed :
          /\ IsTimedItem(eProcessed[j])
          /\ EvStart(eProcessed[j]) < eWin.start
          /\ \E k \in DOMAIN eAdj : ParseISO(eAdj[k].start) = roundUp30(EvEnd(eProcessed[j]))


\* startDate <= the harness date < endDate
CoversHarnessDate(item) ==
    /\ item.kind = "allDay"
    /\ DayOf(item.startDate) <= DayOf(HarnessDate)
    /\ DayOf(HarnessDate) < DayOf(item.endDate)

\* the block of the whole drawn window
SpansDrawnWindow(item) ==
    /\ item.startDateTime = toISOString(eWin.start)
    /\ item.endDateTime = toISOString(eWin.end)

\* C20: the day normalizer produces one synthetic block, spanning the whole
\* window, for each all-day event it is given with startDate <= date <
\* endDate, and nothing for an all-day event that ends on the date or starts
\* after it: with no covering event the engine is handed the kept timed
\* events alone and the slots are those computed from them.
C20_AllDayEndDateExclusive ==
    ePhase.stage = "day" =>
        /\ Len(SelectSeq(eProcessed, IsSyntheticItem))
             = Len(SelectSeq(FilterActive(eRaw), CoversHarnessDate))
        /\ \A j \in DOMAIN eProcessed :
             IsSyntheticItem(eProcessed[j]) => SpansDrawnWindow(eProcessed[j])
        /\ SelectSeq(FilterActive(eRaw), CoversHarnessDate) = << >> =>
             /\ eProcessed = SelectSeq(FilterActive(eRaw), OverlapsDrawnWindow)
             /\ ePhase.all =>
                  eAll = calculateAllSlots(SelectSeq(FilterActive(eRaw), OverlapsDrawnWindow),
                                           eWin.start, eWin.end)

\* C20 witness: of an all-day event of the date and one that ends on the
\* date, only the first produced a block.
C20_Witness ==
    /\ ePhase.stage = "day"
    /\ Len(eRaw) = 2
    /\ \E i \in DOMAIN eRaw : eRaw[i].kind = "allDay" /\ IsActive(eRaw[i])
                               /\ eRaw[i].endDate = HarnessDate
    /\ \E i \in DOMAIN eRaw : IsActive(eRaw[i]) /\ CoversHarnessDate(eRaw[i])
    /\ Len(eProcessed) = 1
    /\ SpansDrawnWindow(eProcessed[1])

\* an all-day event that ends on the date and one that starts the day after
\* left every slot of the window free
C20_WitnessUnaffected ==
    /\ ePhase.stage = "day" /\ ePhase.all
    /\ Len(eRaw) = 2
    /\ \E i \in DOMAIN eRaw : eRaw[i].kind = "allDay" /\ eRaw[i].endDate = HarnessDate
    /\ \E i \in DOMAIN eRaw : eRaw[i].kind = "allDay"
                               /\ DayOf(eRaw[i].startDate) > DayOf(HarnessDate)
    /\ eProcessed = << >>
    /\ Len(eAll) = 16

-----------------------------------------------------------------------------
(* The engines as functions of the event list, checked under SpecEngine *)

\* the orders of a list of n events
Orders(n) == { f \in [1..n -> 1..n] : \A i, j \in 1..n : f[i] = f[j] => i = j }

\* the list in the order f
Reordered(events, f) == [i \in DOMAIN events |-> events[f[i]]]

\* C21: calculateAdjacentSlots and calculateAllSlots return the same list
\* for every order of the processed events.
C21_EnginesIgnoreEventOrder ==
    \A f \in Orders(Len(eProcessed)) :
        /\ ePhase.adj =>
             eAdj = calculateAdjacentSlots(Reordered(eProcessed, f), eWin.start, eWin.end)
        /\ ePhase.all =>
             eAll = calculateAllSlots(Reordered(eProcessed, f), eWin.start, eWin.end)

\* C21 witness: the first event of the list made a slot adjacent and the
\* second one overlaps that slot; the engines have run.
C21_Witness ==
    /\ ePhase.adj /\ ePhase.all
    /\ Len(eProcessed) = 2
    /\ \E k \in 1..TileCount(eWin) :
          /\ Tile(eWin, k - 1).end = roundDown30(EvStart(eProcessed[1]))
          /\ ~Intersects(Tile(eWin, k - 1), eProcessed[1])
          /\ ~eProcessed[1].isSyntheticAllDay
          /\ Intersects(Tile(eWin, k - 1), eProcessed[2])
    /\ eAdj # << >>

\* a synthetic all-day block came before a timed event in the list
C21_WitnessMixed ==
    /\ ePhase.adj /\ ePhase.all
    /\ Len(eProcessed) = 2
    /\ eProcessed[1].isSyntheticAllDay
    /\ ~eProcessed[2].isSyntheticAllDay


\* the slot intersects no processed event
FreeOfProcessed(s) == \A i \in DOMAIN eProcessed : ~Intersects(s, eProcessed[i])

\* C22: calculateAllSlots returns exactly the tiled slots that intersect no
\* processed event under slot.start < event.end and slot.end > event.start,
\* adjacent to an event or not; with an empty list it returns every tiled
\* slot where calculateAdjacentSlots returns []. The three-case test of the
\* earlier calculateAllSlots decides every slot and event here the same way.
C22_AllSlotsExactlyFree ==
    /\ ePhase.all => eAll = Returned(SelectSeq(Tiles(eWin), FreeOfProcessed))
    /\ (ePhase.all /\ eProcessed = << >>) => eAll = Returned(Tiles(eWin))
    /\ (ePhase.adj /\ eProcessed = << >>) => eAdj = << >>
    /\ \A k \in 1..TileCount(eWin), i \in DOMAIN eProcessed :
          SlotOverlapsEarlier(Tile(eWin, k - 1), EvStart(eProcessed[i]), EvEnd(eProcessed[i]))
            = Intersects(Tile(eWin, k - 1), eProcessed[i])

\* C22 witness: with no event handed over, the all variant returned the 16
\* slots of the window and the adjacent variant none.
C22_Witness ==
    /\ ePhase.all /\ ePhase.adj
    /\ eProcessed = << >>
    /\ Len(eAll) = 16
    /\ eAdj = << >>

\* with one event, the all variant returned a slot that borders no event
C22_WitnessNotAdjacent ==
    /\ ePhase.all /\ ePhase.adj
    /\ Len(eProcessed) = 1
    /\ Len(eAll) > Len(eAdj)
    /\ eAdj # << >>

-----------------------------------------------------------------------------
(* Booking the slots offered, checked under Spec *)

\* the answer of POST /api/book to a request carrying the slot, with valid
\* tokens and the provider accepting the insert
BookAnswerFor(slot, cal) ==
    BookHandler(slot.start, slot.end, "valid", cal, TRUE, TRUE).resp

\* C23: no slot the day endpoint returns is rejected with 400 by the weekend
\* and business-hours validation of POST /api/book.
C23_OfferedSlotsAreBookable ==
    DayAnswered =>
        \A k \in DOMAIN resp.slots : BookAnswerFor(resp.slots[k], calendar).status # 400


\* the two items occupy a common stretch of time
ItemsOverlap(a, b) == ItemStart(a) < ItemEnd(b) /\ ItemEnd(a) > ItemStart(b)

\* every event this step inserts for a booking is clear of the events, booked
\* or not, that were on the calendar before the step
InsertsClearOfCalendar ==
    \A b \in calendar' \ calendar :
        IsBooked(b) => \A item \in ActiveItems(calendar) : ~ItemsOverlap(b, item)

\* C24: an event inserted by POST /api/book overlaps no event already on the
\* calendar, whether inserted by an earlier booking or put there by the
\* owner; two requests for the same slot do not both insert.
C24_NoDoubleBooking == [][InsertsClearOfCalendar]_vars


\* the slot of a booked event, as the day endpoint writes slots
SlotOf(item) == [start |-> item.startDateTime, end |-> item.endDateTime]

\* C25: while an event inserted by a booking is on the calendar and active,
\* no answer of the day endpoint contains the slot it was booked for.
C25_BookedSlotNotOfferedAgain ==
    DayAnswered =>
        \A b \in calendar :
            (IsBooked(b) /\ IsActive(b)) => SlotOf(b) \notin SeqToSet(resp.slots)

\* C25 witness: the day endpoint answers for a date after a booking of a slot
\* that it offers without the booked event, and the slot is not in the answer.
C25_Witness ==
    /\ DayAnswered
    /\ \E b \in calendar :
          /\ IsBooked(b) /\ IsActive(b)
          /\ SlotOf(b) \in SeqToSet(DayAnswerFor(resp.date, calendar \ {b}))
          /\ SlotOf(b) \notin SeqToSet(resp.slots)
          /\ resp.slots # << >>

-----------------------------------------------------------------------------
(* Shape of the engines' results, checked under SpecEngine *)

\* the slot lies less than one slot length before the start, or after the
\* end, of the event
NearBoundary(slot, event) ==
    \/ (0 <= EvStart(event) - ParseISO(slot.end)
        /\ EvStart(event) - ParseISO(slot.end) < SlotSec)
    \/ (0 <= ParseISO(slot.start) - EvEnd(event)
        /\ ParseISO(slot.start) - EvEnd(event) < SlotSec)

\* C26: every slot calculateAdjacentSlots returns ends less than 30 minutes
\* before the start, or starts less than 30 minutes after the end, of some
\* timed, non-synthetic event of the list.
C26_AdjacentSlotsNearAnEvent ==
    ePhase.adj =>
        \A k \in DOMAIN eAdj :
            \E j \in DOMAIN eProcessed :
                IsTimedItem(eProcessed[j]) /\ NearBoundary(eAdj[k], eProcessed[j])

\* C26 witness: an event ends 30 seconds after a grid mark; the slot before
\* the event was returned and the slot at its rounded end, which the event
\* overlaps, was not.
C26_Witness ==
    /\ ePhase.adj
    /\ eAdj # << >>
    /\ \E j \in DOMAIN eProcessed :
          /\ IsTimedItem(eProcessed[j])
          /\ EvEnd(eProcessed[j]) % 60 # 0
          /\ roundUp30(EvEnd(eProcessed[j])) < EvEnd(eProcessed[j])
          /\ \E k \in DOMAIN eAdj : ParseISO(eAdj[k].end) = roundDown30(EvStart(eProcessed[j]))
          /\ \A k \in DOMAIN eAdj : ParseISO(eAdj[k].start) # roundUp30(EvEnd(eProcessed[j]))

-----------------------------------------------------------------------------
(* Missing admin tokens, checked under Spec *)

\* the answers given and the calendar while adminTokens is null
UnauthenticatedAnswers ==
    /\ (adminTokens = "null" /\ resp.op \in {"day", "month", "range", "book"}) =>
          /\ resp.status = 500
          /\ resp.err = "Admin not authenticated. Visit /auth/admin first."
          /\ resp.calls = << >>
          /\ resp.slots = << >> /\ resp.month = << >> /\ resp.range = << >>
    /\ adminTokens = "null" => (~rangeReq.active /\ \A item \in calendar : ~IsBooked(item))
    /\ resp.op = "checkAuth" => (resp.authed = (adminTokens # "null"))

\* tokens once stored stay stored
TokensStay == adminTokens # "null" => adminTokens' # "null"

\* C27: while adminTokens is null the day, month, range and book endpoints
\* answer 500 without a calendar API call and without inserting an event;
\* /api/check-admin-auth reports authenticated: false exactly then; stored
\* tokens are never reset to null.
C27_NoTokensNoCalendarAccess == []UnauthenticatedAnswers /\ [][TokensStay]_vars

\* C27 witness: with null tokens a booking request for a slot that passes the
\* validation was answered 500, the owner's calendar holding events.
C27_Witness ==
    /\ adminTokens = "null"
    /\ resp.op = "book" /\ resp.status = 500
    /\ BookAnswerFor([start |-> resp.startTime, end |-> resp.endTime], calendar).status = 200
    /\ calendar # {}

-----------------------------------------------------------------------------
(* The slots the client displays, checked under SpecClient *)

\* C28: whenever isLoading is false and the last response was not an error,
\* availableSlots is the server's answer for the selected date.
C28_DisplayedSlotsAreCurrent ==
    (client # NoClient /\ ~client.isLoading /\ ~client.failed) =>
        client.availableSlots = DayAnswerFor(client.selectedDate, calendar)

-----------------------------------------------------------------------------
(* Shape of the returned slot lists, checked under SpecEngine *)

\* every entry is one slot of the grid laid from the window start, inside the
\* window, and each entry ends no later than the next begins
OnGridInOrder(list, w) ==
    /\ \A k \in DOMAIN list :
          /\ ParseISO(list[k].end) - ParseISO(list[k].start) = SlotSec
          /\ ParseISO(list[k].start) >= w.start
          /\ ParseISO(list[k].end) <= w.end
          /\ (ParseISO(list[k].start) - w.start) % SlotSec = 0
    /\ \A k \in 1..(Len(list) - 1) :
          /\ ParseISO(list[k].start) < ParseISO(list[k + 1].start)
          /\ ParseISO(list[k].end) <= ParseISO(list[k + 1].start)

\* C29: every slot returned by calculateAdjacentSlots or calculateAllSlots is
\* exactly 30 minutes long, lies within the window, starts a whole number of
\* slots after the window start, and the list is strictly increasing by
\* start, without duplicates or overlapping slots.
C29_ReturnedSlotsOnGridInOrder ==
    /\ ePhase.adj => OnGridInOrder(eAdj, eWin)
    /\ ePhase.all => OnGridInOrder(eAll, eWin)

\* C29 witness: both variants returned several slots, and the all variant
\* returned slots on both sides of an event, not next to each other.
C29_Witness ==
    /\ ePhase.adj /\ ePhase.all
    /\ Len(eAdj) >= 2
    /\ \E k \in 1..(Len(eAll) - 1) :
          ParseISO(eAll[k].end) < ParseISO(eAll[k + 1].start)

-----------------------------------------------------------------------------
(* The two lists of a range entry, checked under Spec *)

\* every slot of the first list is a slot of the second
SlotsWithin(part, whole) ==
    \A k \in DOMAIN part : \E j \in DOMAIN whole : whole[j] = part[k]

\* C30: in every weekday entry of a range answer, every slot of `adjacent`
\* is also a slot of `all`.
C30_AdjacentWithinAll ==
    (resp.op = "range" /\ resp.status = 200) =>
        \A i \in DOMAIN resp.range :
            ~resp.range[i].isWeekend =>
                SlotsWithin(resp.range[i].adjacent, resp.range[i].all)

\* C30 witness: a range answer has a weekday entry with adjacent slots and
\* with more slots in `all` than in `adjacent`.
C30_Witness ==
    /\ resp.op = "range" /\ resp.status = 200
    /\ \E i \in DOMAIN resp.range :
          /\ ~resp.range[i].isWeekend
          /\ resp.range[i].adjacent # << >>
          /\ Len(resp.range[i].all) > Len(resp.range[i].adjacent)

====
